---------------------------- MODULE Spec2Model ----------------------------
(***************************************************************************)
(* Model of the audio core of apiipc/meeting:                              *)
(*   - utils/audioUtils.ts (src/unnamed/part_001): the base64 transport    *)
(*     codec, the PCM packet encoder, the chunker (splitAudio) and the     *)
(*     WAV container encoder (audioBufferToWav);                           *)
(*   - components/LiveSession.tsx: the capture/transmit path of a live     *)
(*     session (startSession, onopen, onaudioprocess, stopSession).        *)
(*                                                                         *)
(* One group of variables per component; each specification drives one     *)
(* component and leaves the other groups at their idle values.             *)
(***************************************************************************)
EXTENDS Integers, Sequences, FiniteSets, TLC

VARIABLES
    \* --- binary transport codec (encodeAudio / decodeAudio)
    cPc,        \* "off" | "input" | "encoded" | "decoded"
    bytes,      \* the Uint8Array handed to encodeAudio
    encoded,    \* the string encodeAudio returned, as a sequence of char codes
    decoded,    \* what decodeAudio returned: [threw, bytes]
    \* --- chunker (splitAudio)
    sPc,        \* "off" | "start" | "loop" | "done" | "threw"
    srcLen,     \* audioBuffer.length of the decoded file (frames)
    srcRate,    \* audioBuffer.sampleRate of the decoded file
    pcmLen,     \* pcmData.length: frames of the 16 kHz mono rendering
    startSample,\* the slicing loop's cursor
    partIndex,  \* the slicing loop's 1-based part counter
    chunks,     \* the files produced so far: <<[index, start, end]>>
    \* --- PCM encoders (audioBufferToWav, createPcmBlob)
    wPc,        \* "off" | "input" | "done": audioBufferToWav
    bPc,        \* "off" | "input" | "done": createPcmBlob
    samples,    \* the mono channel data, as numerators over SampleResolution
    wavOut,     \* the bytes of the Blob audioBufferToWav returned
    pcmBlob,    \* the packet createPcmBlob returned: [data, mimeType]
    \* --- live session (LiveSession.tsx); 0 stands for null
    status,             \* 'disconnected' | 'connecting' | 'connected'
    isConnected,        \* the isConnected state
    inputAudioContextRef,   \* the session whose input context the ref holds
    outputAudioContextRef,  \* the session whose output context the ref holds
    closedIn,           \* sessions whose input context has been closed
    closedOut,          \* sessions whose output context has been closed
    scriptProcessorRef, \* the session whose processor (and source) the refs hold
    handler,            \* processors whose onaudioprocess is set
    procCtx,            \* processor -> the input context it was created on
    sessionPromiseRef,  \* the session whose connect promise the ref holds
    activeSessionRef,   \* the session the ref holds
    promise,            \* session -> "none" | "pending" | "resolved" | "rejected"
    ws,                 \* session -> "none" | "connecting" | "open" | "closing" | "broken" | "closed"
    startPc,            \* startSession call -> "idle" | "getUserMedia" | "awaitConnect" | "done" | "failed"
    stopPc,             \* stopSession call -> "idle" | "awaitInput" | "awaitOutput" | "done" | "threw"
    reactions,          \* session -> the frames whose then-callbacks wait on its promise
    sendLog,            \* the sendRealtimeInput calls made: <<[session, media]>>
    capLog,             \* the onaudioprocess events handled: <<[frame, proc, ...]>>
    stream,             \* the stream state: the session whose MediaStream it holds
    tracks,             \* session -> "none" | "live" | "ended": its MediaStream's tracks
    startStream,        \* startSession call -> the stream state of the render it was made in
    stopCall,           \* stopSession call -> [by, stream, session]: who called it, its render's stream state
    error,              \* the error state: "none" | "start" | "connection"
    mounted,            \* the component is mounted
    \* --- playback scheduler (handleServerMessage in LiveSession.tsx)
    nextStartTimeRef,   \* the cursor, in clock ticks
    sourcesRef,         \* the active set: sources named by their message's number
    currentTime,        \* output context (by session) -> its clock, in ticks
    msgs,               \* the onmessage calls made, in arrival order, with what became of each
    microQ,             \* handlers suspended at await decodeAudioData, oldest first
    \* --- transcription dispatcher (AudioTranscriber.tsx); 0 stands for null
    isProcessing,       \* the isProcessing state
    isSplitting,        \* the isSplitting state
    processingStatus,   \* the processingStatus state: "" or what is shown
    transcription,      \* the transcription state: the texts joined by blank lines, as a sequence
    selectedFile,       \* the selected file
    fileParts,          \* the parts of the selected file: <<[file, part]>>
    autoAnalyze,        \* the autoAnalyze state
    fPc,                \* handleTranscriptionFlow call -> where it is
    fParts,             \* call -> its parts argument
    fI,                 \* call -> the loop's i
    fAttempt,           \* call -> attempt of the transcribeSingleFile in progress
    fFull,              \* call -> fullTranscript
    inFlight,           \* the generateContent transcription calls not yet returned
    dLog,               \* the calls, returns and waits of the flows, in order
    selPc,              \* handleFileSelection call -> where it is
    selFile             \* handleFileSelection call -> its file argument

codecVars == <<cPc, bytes, encoded, decoded>>
splitVars == <<sPc, srcLen, srcRate, pcmLen, startSample, partIndex, chunks>>

pcmVars   == <<wPc, bPc, samples, wavOut, pcmBlob>>

liveVars  == <<status, isConnected, inputAudioContextRef, outputAudioContextRef,
               closedIn, closedOut, scriptProcessorRef, handler, procCtx,
               sessionPromiseRef, activeSessionRef, promise, ws, startPc,
               stopPc, reactions, sendLog, capLog,
               stream, tracks, startStream, stopCall, error, mounted,
               nextStartTimeRef, sourcesRef, currentTime, msgs, microQ>>

ioVars    == <<stream, tracks, startStream, stopCall, error, mounted>>

playVars  == <<nextStartTimeRef, sourcesRef, currentTime, msgs, microQ>>

dispVars  == <<isProcessing, isSplitting, processingStatus, transcription,
               selectedFile, fileParts, autoAnalyze, fPc, fParts, fI,
               fAttempt, fFull, inFlight, dLog, selPc, selFile>>

selVars   == <<selPc, selFile>>

nonLiveVars == <<codecVars, splitVars, pcmVars, dispVars>>

vars == <<codecVars, splitVars, pcmVars, liveVars, dispVars>>

-----------------------------------------------------------------------------
(* Small helpers.                                                          *)

Min(a, b) == IF a < b THEN a ELSE b
Max(a, b) == IF a > b THEN a ELSE b

RECURSIVE SeqsUpTo(_, _)
\* All sequences over S of length 0..n.
SeqsUpTo(S, n) ==
    IF n = 0 THEN {<<>>}
    ELSE LET shorter == SeqsUpTo(S, n - 1)
         IN  shorter \cup {Append(s, x) : s \in {t \in shorter : Len(t) = n - 1}, x \in S}

-----------------------------------------------------------------------------
(* Binary transport codec: src/unnamed/part_001 lines 3-20.                *)

\* Longest byte sequence enumerated exhaustively over ByteSamples.
MaxBytesLen == 3

\* Byte values the inputs are drawn from: both ends of the range, the
\* sextet boundaries and the sign bit.
ByteSamples == {0, 1, 63, 64, 127, 128, 254, 255}

\* The sequence holding every byte value 0..255 once.
AllBytes == [i \in 1..256 |-> i - 1]

\* String.fromCharCode(n): the UTF-16 code unit n mod 2^16.
fromCharCode(n) == n % 65536

\* The base64 alphabet A-Z a-z 0-9 + / as ASCII codes, and '=' (61).
B64Char(i) ==
    IF i < 26 THEN 65 + i
    ELSE IF i < 52 THEN 97 + (i - 26)
    ELSE IF i < 62 THEN 48 + (i - 52)
    ELSE IF i = 62 THEN 43
    ELSE 47

PadChar == 61

\* The alphabet index of a char code, -1 when it is not in the alphabet.
B64Index(c) ==
    IF \E i \in 0..63 : B64Char(i) = c
    THEN CHOOSE i \in 0..63 : B64Char(i) = c
    ELSE -1

\* btoa of a binary string (char codes 0..255): every group of 3 bytes gives
\* 4 characters; a final group of 1 or 2 bytes is zero-filled and padded
\* with '='.
btoa(s) ==
    LET n == Len(s)
        byteAt(i) == IF i <= n THEN s[i] ELSE 0
        charAt(j) ==
            LET g  == (j - 1) \div 4
                k  == (j - 1) % 4
                b1 == byteAt(3 * g + 1)
                b2 == byteAt(3 * g + 2)
                b3 == byteAt(3 * g + 3)
            IN  IF k = 0 THEN B64Char(b1 \div 4)
                ELSE IF k = 1 THEN B64Char((b1 % 4) * 16 + b2 \div 16)
                ELSE IF k = 2 THEN
                    IF 3 * g + 2 > n THEN PadChar
                    ELSE B64Char((b2 % 16) * 4 + b3 \div 64)
                ELSE
                    IF 3 * g + 3 > n THEN PadChar
                    ELSE B64Char(b3 % 64)
    IN  [j \in 1..(4 * ((n + 2) \div 3)) |-> charAt(j)]

\* atob, step 1: a string whose length is a multiple of 4 loses one or two
\* trailing '='.
StripPad(str) ==
    LET n == Len(str)
    IN  IF n > 0 /\ n % 4 = 0 /\ str[n] = PadChar
        THEN IF str[n - 1] = PadChar THEN SubSeq(str, 1, n - 2)
             ELSE SubSeq(str, 1, n - 1)
        ELSE str

\* atob, step 2: 4 sextets -> 3 bytes; a trailing group of 2 gives 1 byte
\* and of 3 gives 2 bytes, the spare bits discarded.
DecodeSextets(x) ==
    LET n == Len(x)
        sextet(i) == IF i <= n THEN x[i] ELSE 0
        byteAt(j) ==
            LET g  == (j - 1) \div 3
                k  == (j - 1) % 3
                x1 == sextet(4 * g + 1)
                x2 == sextet(4 * g + 2)
                x3 == sextet(4 * g + 3)
                x4 == sextet(4 * g + 4)
            IN  IF k = 0 THEN x1 * 4 + x2 \div 16
                ELSE IF k = 1 THEN (x2 % 16) * 16 + x3 \div 4
                ELSE (x3 % 4) * 64 + x4
    IN  [j \in 1..((n * 3) \div 4) |-> byteAt(j)]

\* atob: [threw, str]; it throws InvalidCharacterError on a length of
\* 1 mod 4 or on a character outside the alphabet.
atob(str) ==
    LET body == StripPad(str)
        idx  == [i \in 1..Len(body) |-> B64Index(body[i])]
    IN  IF Len(body) % 4 = 1 \/ \E i \in 1..Len(body) : idx[i] = -1
        THEN [threw |-> TRUE, str |-> <<>>]
        ELSE [threw |-> FALSE, str |-> DecodeSextets(idx)]

\* A mis-encoding that keeps only seven bits of every byte.
encodeAudio_7bit(b) == btoa([i \in 1..Len(b) |-> fromCharCode(b[i] % 128)])

\* encodeAudio: binary += String.fromCharCode(bytes[i]); return btoa(binary).
encodeAudio(b) == btoa([i \in 1..Len(b) |-> fromCharCode(b[i])])

\* decodeAudio: atob, then bytes[i] = binaryString.charCodeAt(i) stored in a
\* Uint8Array (mod 256).
decodeAudio(base64) ==
    LET r == atob(base64)
    IN  IF r.threw THEN [threw |-> TRUE, bytes |-> <<>>]
        ELSE [threw |-> FALSE,
              bytes |-> [i \in 1..Len(r.str) |-> r.str[i] % 256]]

-----------------------------------------------------------------------------
(* Chunker: splitAudio, src/unnamed/part_001 lines 126-181.                *)

TARGET_SAMPLE_RATE == 16000
CHUNK_DURATION_SEC == 300

\* Whole chunks the longest input spans.
MaxFullChunks == 2

\* Sample rates of the decoded AudioBuffer (the rate of the decoding context).
Rates == {8000, 16000, 44100, 48000}

\* Input lengths: k full chunk durations plus SecOffsets seconds, give or
\* take one frame.
SecOffsets == {0, 1, 20, 299}
FrameOffsets == {-1, 0, 1}

\* audioBuffer.duration <= secs, for duration = length / sampleRate.
DurationLE(len, rate, secs) == len <= secs * rate

\* floor(len * TARGET_SAMPLE_RATE / rate), computed without leaving 32 bits.
ExactFrames(len, rate) ==
    (len \div rate) * TARGET_SAMPLE_RATE
        + ((len % rate) * TARGET_SAMPLE_RATE) \div rate

\* The significand of the double nearest len / rate is found by long
\* division of a by b, where a / b = (len / rate) * 2^k lies in [1, 2).
RECURSIVE ScaleUp(_, _)
ScaleUp(a, b) == IF a < b THEN ScaleUp(2 * a, b) ELSE a

RECURSIVE ScaleDown(_, _)
ScaleDown(a, b) == IF a >= 2 * b THEN ScaleDown(a, 2 * b) ELSE b

\* Bits of a double's significand after the leading one.
FractionBits == 52

\* The remainder left after steps more quotient bits.
RECURSIVE DivisionRemainder(_, _, _)
DivisionRemainder(r, b, steps) ==
    IF steps = 0 THEN r ELSE DivisionRemainder((2 * r) % b, b, steps - 1)

\* audioBuffer.duration * TARGET_SAMPLE_RATE in double arithmetic, for an
\* exact product that is a whole number E while the duration is not
\* representable.  The duration is len / rate rounded to 53 bits, off by
\* -(r / b) units of its last place when the division remainder r is below
\* b / 2.  The product then rounds to the double below E exactly when
\* 16000 * (r / b) units of the duration's last place exceed half a unit of
\* E's, which needs E's exponent to be 13 above the duration's (significand
\* a / b below 1.024) and 125 * r > 32 * b; a tie rounds to E.
ProductFallsShort(len, rate) ==
    LET a == ScaleUp(len, rate)
        b == ScaleDown(a, rate)
        r == DivisionRemainder(a - b, b, FractionBits)
    IN  /\ a - b <= (3 * b - 1) \div 125
        /\ 2 * r < b
        /\ r > (32 * b) \div 125

\* new OfflineAudioContext(1, duration * TARGET_SAMPLE_RATE, rate): the length
\* argument is a double converted to unsigned long by truncation.  When the
\* exact product is a whole number and the double product falls just below
\* it (8001 frames at 8000 Hz give 16001.999999999998, 16528189 frames give
\* 33056377.999999996) the rendering is one frame shorter.
RenderLengths(len, rate) ==
    LET n == ExactFrames(len, rate)
    IN  IF /\ len % rate # 0
           /\ ((len % rate) * TARGET_SAMPLE_RATE) % rate = 0
           /\ ProductFallsShort(len, rate)
        THEN {n - 1}
        ELSE {n}

\* const samplesPerChunk = CHUNK_DURATION_SEC * TARGET_SAMPLE_RATE, taken
\* for a bound in bytes (2 per sample).
samplesPerChunk_bytes == CHUNK_DURATION_SEC * TARGET_SAMPLE_RATE * 2

\* const samplesPerChunk = CHUNK_DURATION_SEC * TARGET_SAMPLE_RATE.
samplesPerChunk == CHUNK_DURATION_SEC * TARGET_SAMPLE_RATE

\* endSample taken one past the bound.
EndSample_offByOne(start, len) == Min(start + samplesPerChunk + 1, len)

\* const endSample = Math.min(startSample + samplesPerChunk, pcmData.length).
EndSample(start, len) == Min(start + samplesPerChunk, len)

\* A slice that begins one sample late.
TypedSlice_skipFirst(len, s, e) ==
    LET from == Min(Max(s, 0), len)
        to   == Min(Max(e, 0), len)
    IN  [start |-> Min(from + 1, Max(from, to)), end |-> Max(from, to)]

\* pcmData.slice(s, e): the samples [s, e), both ends clamped to the array.
TypedSlice(len, s, e) ==
    LET from == Min(Max(s, 0), len)
        to   == Min(Max(e, 0), len)
    IN  [start |-> from, end |-> Max(from, to)]

\* The file of one part: `${baseName}_part${partIndex}.wav` over a slice.
ChunkFile(index, slice) ==
    [index |-> index, start |-> slice.start, end |-> slice.end]

SplitIdle ==
    /\ sPc = "off"
    /\ srcLen = 0
    /\ srcRate = 0
    /\ pcmLen = 0
    /\ startSample = 0
    /\ partIndex = 0
    /\ chunks = <<>>

\* The decoded files: an AudioBuffer holds at least one frame.
SplitInputs ==
    {in \in [len : {(k * CHUNK_DURATION_SEC + s) * r + d :
                        k \in 0..MaxFullChunks, s \in SecOffsets,
                        d \in FrameOffsets, r \in Rates},
             rate : Rates] :
        /\ in.len >= 1
        /\ \E k \in 0..MaxFullChunks, s \in SecOffsets, d \in FrameOffsets :
               in.len = (k * CHUNK_DURATION_SEC + s) * in.rate + d}

SplitInit ==
    /\ sPc = "start"
    /\ \E in \in SplitInputs : srcLen = in.len /\ srcRate = in.rate
    /\ pcmLen = 0
    /\ startSample = 0
    /\ partIndex = 0
    /\ chunks = <<>>

\* if (audioBuffer.duration <= CHUNK_DURATION_SEC) return [await
\* compressAudio(file)]: one file holding the whole rendering.  A rendering
\* of 0 frames cannot be made: the OfflineAudioContext constructor throws.
\* A variant that forgets the return and goes on to the slicing loop.
SplitShort_fallThrough ==
    /\ sPc = "start"
    /\ DurationLE(srcLen, srcRate, CHUNK_DURATION_SEC)
    /\ \E n \in RenderLengths(srcLen, srcRate) :
        IF n = 0
        THEN /\ sPc' = "threw"
             /\ UNCHANGED <<pcmLen, chunks, startSample, partIndex>>
        ELSE /\ pcmLen' = n
             /\ chunks' = << ChunkFile(1, [start |-> 0, end |-> n]) >>
             /\ startSample' = 0
             /\ partIndex' = 2
             /\ sPc' = "loop"
    /\ UNCHANGED <<srcLen, srcRate, codecVars, pcmVars, liveVars, dispVars>>

SplitShort ==
    /\ sPc = "start"
    /\ DurationLE(srcLen, srcRate, CHUNK_DURATION_SEC)
    /\ \E n \in RenderLengths(srcLen, srcRate) :
        IF n = 0
        THEN /\ sPc' = "threw"
             /\ UNCHANGED <<pcmLen, chunks>>
        ELSE /\ pcmLen' = n
             /\ chunks' = << ChunkFile(1, [start |-> 0, end |-> n]) >>
             /\ sPc' = "done"
    /\ UNCHANGED <<srcLen, srcRate, startSample, partIndex, codecVars, pcmVars, liveVars, dispVars>>

\* Lines 140-161: render the whole file at 16 kHz mono, take channel 0 and
\* set the cursor to the first sample.
SplitRender ==
    /\ sPc = "start"
    /\ ~DurationLE(srcLen, srcRate, CHUNK_DURATION_SEC)
    /\ \E n \in RenderLengths(srcLen, srcRate) : pcmLen' = n
    /\ startSample' = 0
    /\ partIndex' = 1
    /\ chunks' = <<>>
    /\ sPc' = "loop"
    /\ UNCHANGED <<srcLen, srcRate, codecVars, pcmVars, liveVars, dispVars>>

\* One iteration of while (startSample < pcmData.length).
SplitLoop ==
    /\ sPc = "loop"
    /\ startSample < pcmLen
    /\ LET endSample == EndSample(startSample, pcmLen)
           chunkData == TypedSlice(pcmLen, startSample, endSample)
       IN  /\ chunks' = Append(chunks, ChunkFile(partIndex, chunkData))
           /\ startSample' = endSample
           /\ partIndex' = partIndex + 1
    /\ UNCHANGED <<sPc, srcLen, srcRate, pcmLen, codecVars, pcmVars, liveVars, dispVars>>

\* The loop's exit: return chunks.
SplitReturn ==
    /\ sPc = "loop"
    /\ ~(startSample < pcmLen)
    /\ sPc' = "done"
    /\ UNCHANGED <<srcLen, srcRate, pcmLen, startSample, partIndex, chunks,
                   codecVars, pcmVars, liveVars, dispVars>>

SplitNext == SplitShort \/ SplitRender \/ SplitLoop \/ SplitReturn

-----------------------------------------------------------------------------
(* PCM encoders: audioBufferToWav (src/unnamed/part_001 lines 187-242) and *)
(* createPcmBlob (lines 41-51).                                            *)

\* A sample is the rational n / SampleResolution; with a resolution of 4
\* every sample is a dyadic rational, exact as a Float32, and its products
\* with 32767 and 32768 are exact doubles.
SampleResolution == 4

\* Samples range over [-1.5, 1.5]: in range, at the ends, and out of range.
SampleNums ==
    -(SampleResolution + SampleResolution \div 2)
        ..(SampleResolution + SampleResolution \div 2)

\* Longest run of arbitrary samples after the first WavHeaderBytes samples.
MaxTail == 2

\* The header's size in bytes (buffer.length * numOfChan * 2 + 44).
WavHeaderBytes == 44

\* Truncation toward zero of a / b (b > 0): what `| 0` and the typed-array
\* store do to a value inside the 32-bit range.
TruncDiv(a, b) == IF a >= 0 THEN a \div b ELSE -((-a) \div b)

\* Storing an integer in an Int16Array: modulo 2^16, read as signed.
ToInt16(x) == ((x + 32768) % 65536) - 32768

\* Math.max(-1, Math.min(1, s)).
Clamp(n) == Max(-SampleResolution, Min(SampleResolution, n))

\* The quantization without the clamp.
WavQuantize_noClamp(n) ==
    IF SampleResolution + 2 * n < 0
    THEN TruncDiv(n * 32768, SampleResolution)
    ELSE TruncDiv(n * 32767, SampleResolution)

\* Lines 222-224: sample = clamp; (0.5 + sample < 0 ? sample * 32768 :
\* sample * 32767) | 0.  The test is 0.5 + sample < 0, that is
\* sample < -0.5.
WavQuantize(n) ==
    LET c == Clamp(n)
    IN  IF SampleResolution + 2 * c < 0
        THEN TruncDiv(c * 32768, SampleResolution)
        ELSE TruncDiv(c * 32767, SampleResolution)

\* Line 45: int16[i] = data[i] * 32768, stored in an Int16Array.
PcmQuantize(n) == ToInt16(TruncDiv(n * 32768, SampleResolution))

RECURSIVE Pow256(_)
Pow256(k) == IF k = 0 THEN 1 ELSE 256 * Pow256(k - 1)

\* DataView.setUint16 / setUint32 / setInt16 (..., true): the value modulo
\* 2^(8w), least significant byte first.  view[i] is the byte at offset i - 1.
SetLE(view, offset, value, w) ==
    [i \in 1..Len(view) |->
        IF i - 1 >= offset /\ i - 1 < offset + w
        THEN (value \div Pow256(i - 1 - offset)) % 256
        ELSE view[i]]

\* view.setInt16(offset, sample, true): the two's complement of sample.
SetInt16(view, offset, sample) ==
    SetLE(view, offset, (sample + 65536) % 65536, 2)

\* setUint32(length) in place of length - 8.
RiffLength_whole(length) == length

\* setUint32(length - 8).
RiffLength(length) == length - 8

\* The header's 13 writes in order, each [w: width, rest: whether the value
\* is length - pos - 4, v: the value otherwise].
HeaderWrites(numOfChan, sampleRate, length) ==
    << [w |-> 4, rest |-> FALSE, v |-> 1179011410],          \* 0x46464952 "RIFF"
       [w |-> 4, rest |-> FALSE, v |-> RiffLength(length)],
       [w |-> 4, rest |-> FALSE, v |-> 1163280727],          \* 0x45564157 "WAVE"
       [w |-> 4, rest |-> FALSE, v |-> 544501094],           \* 0x20746d66 "fmt "
       [w |-> 4, rest |-> FALSE, v |-> 16],
       [w |-> 2, rest |-> FALSE, v |-> 1],
       [w |-> 2, rest |-> FALSE, v |-> numOfChan],
       [w |-> 4, rest |-> FALSE, v |-> sampleRate],
       [w |-> 4, rest |-> FALSE, v |-> sampleRate * 2 * numOfChan],
       [w |-> 2, rest |-> FALSE, v |-> numOfChan * 2],
       [w |-> 2, rest |-> FALSE, v |-> 16],
       [w |-> 4, rest |-> FALSE, v |-> 1635017060],          \* 0x61746164 "data"
       [w |-> 4, rest |-> TRUE,  v |-> 0] >>

RECURSIVE WriteHeader(_, _, _, _)
\* setUint16 / setUint32: write at pos, then pos += width.  Returns
\* [view, pos] after the writes.
WriteHeader(view, pos, writes, length) ==
    IF writes = <<>> THEN [view |-> view, pos |-> pos]
    ELSE LET wr == Head(writes)
             v  == IF wr.rest THEN length - pos - 4 ELSE wr.v
         IN  WriteHeader(SetLE(view, pos, v, wr.w), pos + wr.w,
                         Tail(writes), length)

RECURSIVE WriteChannels(_, _, _, _, _, _)
\* Lines 220-227: for (i = 0; i < numOfChan; i++) at frame pos.
WriteChannels(view, offset, channels, i, numOfChan, pos) ==
    IF i >= numOfChan THEN [view |-> view, offset |-> offset]
    ELSE LET sample == WavQuantize(channels[i + 1][pos + 1])
         IN  WriteChannels(SetInt16(view, WavHeaderBytes + offset, sample),
                           offset + 2, channels, i + 1, numOfChan, pos)

RECURSIVE WriteData(_, _, _, _, _)
\* Lines 219-229: while (pos < buffer.length) { ...; pos++ }.  pos is the
\* variable the header writes advanced: it enters the loop at 44.
WriteData(view, pos, offset, channels, bufLength) ==
    IF ~(pos < bufLength) THEN view
    ELSE LET r == WriteChannels(view, offset, channels, 0, Len(channels), pos)
         IN  WriteData(r.view, pos + 1, r.offset, channels, bufLength)

\* audioBufferToWav(buffer) for buffer = [sampleRate, channels]: the bytes
\* of the returned Blob.
audioBufferToWav(buffer) ==
    LET numOfChan == Len(buffer.channels)
        bufLength == Len(buffer.channels[1])
        length    == bufLength * numOfChan * 2 + WavHeaderBytes
        zeroed    == [i \in 1..length |-> 0]
        h         == WriteHeader(zeroed, 0,
                         HeaderWrites(numOfChan, buffer.sampleRate, length),
                         length)
    IN  WriteData(h.view, h.pos, 0, buffer.channels, bufLength)

\* audioDataToWavFile / compressAudio: the buffer handed to audioBufferToWav
\* is always mono at TARGET_SAMPLE_RATE.
MonoBuffer(channelData) ==
    [sampleRate |-> TARGET_SAMPLE_RATE, channels |-> << channelData >>]

\* new Uint8Array(int16.buffer): two bytes per element, low byte first.
Int16Bytes(int16) ==
    [i \in 1..(2 * Len(int16)) |->
        LET u == (int16[(i + 1) \div 2] + 65536) % 65536
        IN  IF i % 2 = 1 THEN u % 256 ELSE u \div 256]

\* createPcmBlob(data).
createPcmBlob(data) ==
    LET int16 == [i \in 1..Len(data) |-> PcmQuantize(data[i])]
    IN  [data |-> encodeAudio(Int16Bytes(int16)),
         mimeType |-> "audio/pcm;rate=16000"]

NoBlob == [data |-> <<>>, mimeType |-> ""]

PcmIdle ==
    /\ wPc = "off"
    /\ bPc = "off"
    /\ samples = <<>>
    /\ wavOut = <<>>
    /\ pcmBlob = NoBlob

\* Channel data: every buffer of at most one sample, and every buffer of
\* WavHeaderBytes equal samples followed by at most MaxTail arbitrary ones.
PcmInputs ==
    SeqsUpTo(SampleNums, 1)
    \cup { [i \in 1..WavHeaderBytes |-> a] \o tl :
               a \in {0, SampleResolution}, tl \in SeqsUpTo(SampleNums, MaxTail) }

PcmInit ==
    /\ wPc = "input"
    /\ bPc = "input"
    /\ samples \in PcmInputs
    /\ wavOut = <<>>
    /\ pcmBlob = NoBlob

\* audioDataToWavFile(channelData, TARGET_SAMPLE_RATE, name).
EncodeWav ==
    /\ wPc = "input"
    /\ wavOut' = audioBufferToWav(MonoBuffer(samples))
    /\ wPc' = "done"
    /\ UNCHANGED <<bPc, samples, pcmBlob, codecVars, splitVars, liveVars, dispVars>>

\* createPcmBlob(inputData) on a captured frame.
EncodePcm ==
    /\ bPc = "input"
    /\ pcmBlob' = createPcmBlob(samples)
    /\ bPc' = "done"
    /\ UNCHANGED <<wPc, samples, wavOut, codecVars, splitVars, liveVars, dispVars>>

PcmNext == EncodeWav \/ EncodePcm

CodecIdle ==
    /\ cPc = "off"
    /\ bytes = <<>>
    /\ encoded = <<>>
    /\ decoded = [threw |-> FALSE, bytes |-> <<>>]

CodecInit ==
    /\ cPc = "input"
    /\ bytes \in SeqsUpTo(ByteSamples, MaxBytesLen) \cup {AllBytes}
    /\ encoded = <<>>
    /\ decoded = [threw |-> FALSE, bytes |-> <<>>]

\* A caller encodes a byte buffer for the wire.
Encode ==
    /\ cPc = "input"
    /\ encoded' = encodeAudio(bytes)
    /\ cPc' = "encoded"
    /\ UNCHANGED <<bytes, decoded, splitVars, pcmVars, liveVars, dispVars>>

\* The receiving side decodes the string.
Decode ==
    /\ cPc = "encoded"
    /\ decoded' = decodeAudio(encoded)
    /\ cPc' = "decoded"
    /\ UNCHANGED <<bytes, encoded, splitVars, pcmVars, liveVars, dispVars>>

CodecNext == Encode \/ Decode

-----------------------------------------------------------------------------
(* Live session, capture/transmit path: src/components/LiveSession.tsx.    *)
(* Every action is one task of the event loop: a callback or the stretch   *)
(* of an async function between two awaits, with the microtasks it queues. *)

\* startSession calls (each makes one session, its two audio contexts, its
\* connect promise and, on open, its processor; all carry the call's number).
MaxSessions == 2
\* stopSession calls.
MaxStops == 2
\* onaudioprocess events.
MaxFrames == 2

Sessions == 1..MaxSessions
Stops == 1..MaxStops

\* A stopSession call not made yet.
NoCall ==
    [by |-> "none", stream |-> 0, session |-> 0, streaming |-> FALSE,
     connecting |-> FALSE]

LiveIdle ==
    /\ status = "disconnected"
    /\ isConnected = FALSE
    /\ inputAudioContextRef = 0
    /\ outputAudioContextRef = 0
    /\ closedIn = {}
    /\ closedOut = {}
    /\ scriptProcessorRef = 0
    /\ handler = {}
    /\ procCtx = [s \in Sessions |-> 0]
    /\ sessionPromiseRef = 0
    /\ activeSessionRef = 0
    /\ promise = [s \in Sessions |-> "none"]
    /\ ws = [s \in Sessions |-> "none"]
    /\ startPc = [s \in Sessions |-> "idle"]
    /\ stopPc = [k \in Stops |-> "idle"]
    /\ reactions = [s \in Sessions |-> <<>>]
    /\ sendLog = <<>>
    /\ capLog = <<>>
    /\ stream = 0
    /\ tracks = [s \in Sessions |-> "none"]
    /\ startStream = [s \in Sessions |-> 0]
    /\ stopCall = [k \in Stops |-> NoCall]
    /\ error = "none"
    /\ mounted = TRUE
    /\ nextStartTimeRef = 0
    /\ sourcesRef = {}
    /\ currentTime = [s \in Sessions |-> 0]
    /\ msgs = <<>>
    /\ microQ = <<>>

\* The component as mounted: the useState / useRef initial values.
LiveInit == LiveIdle

\* Lines 29-35: the Start button (shown while !isConnected, disabled while
\* status is 'connecting') calls startSession, which runs to the await of
\* getUserMedia.
StartSession(s) ==
    /\ mounted
    /\ ~isConnected
    /\ status # "connecting"
    /\ startPc[s] = "idle"
    /\ \A r \in Sessions : r < s => startPc[r] # "idle"
    /\ error' = "none"
    /\ status' = "connecting"
    /\ startPc' = [startPc EXCEPT ![s] = "getUserMedia"]
    /\ startStream' = [startStream EXCEPT ![s] = stream]
    /\ UNCHANGED nonLiveVars
    /\ UNCHANGED <<stream, tracks, stopCall, mounted>>
    /\ UNCHANGED playVars
    /\ UNCHANGED <<isConnected, inputAudioContextRef, outputAudioContextRef,
                   closedIn, closedOut, scriptProcessorRef, handler, procCtx,
                   sessionPromiseRef, activeSessionRef, promise, ws, stopPc,
                   reactions, sendLog, capLog>>

\* Lines 36-78: getUserMedia resolved; the two contexts are made, connect is
\* called and its promise stored; startSession awaits the promise.
GetUserMediaResolved(s) ==
    /\ startPc[s] = "getUserMedia"
    /\ stream' = s
    /\ tracks' = [tracks EXCEPT ![s] = "live"]
    /\ inputAudioContextRef' = s
    /\ outputAudioContextRef' = s
    /\ sessionPromiseRef' = s
    /\ promise' = [promise EXCEPT ![s] = "pending"]
    /\ ws' = [ws EXCEPT ![s] = "connecting"]
    /\ startPc' = [startPc EXCEPT ![s] = "awaitConnect"]
    /\ UNCHANGED nonLiveVars
    /\ UNCHANGED <<startStream, stopCall, error, mounted>>
    /\ UNCHANGED playVars
    /\ UNCHANGED <<status, isConnected, closedIn, closedOut,
                   scriptProcessorRef, handler, procCtx, activeSessionRef,
                   stopPc, reactions, sendLog, capLog>>

\* Lines 81-85: getUserMedia rejected (permission denied); the catch.
GetUserMediaRejected(s) ==
    /\ startPc[s] = "getUserMedia"
    /\ error' = "start"
    /\ status' = "disconnected"
    /\ startPc' = [startPc EXCEPT ![s] = "failed"]
    /\ UNCHANGED nonLiveVars
    /\ UNCHANGED <<stream, tracks, startStream, stopCall, mounted>>
    /\ UNCHANGED playVars
    /\ UNCHANGED <<isConnected, inputAudioContextRef, outputAudioContextRef,
                   closedIn, closedOut, scriptProcessorRef, handler, procCtx,
                   sessionPromiseRef, activeSessionRef, promise, ws, stopPc,
                   reactions, sendLog, capLog>>

\* Lines 36-41 and 81-85: getUserMedia resolved and the stream is stored,
\* but a context constructor throws (the browser refuses another context):
\* the input one, or the output one after the input context was made and
\* stored.  The catch runs.
ContextCreationFailed(s, which) ==
    /\ startPc[s] = "getUserMedia"
    /\ stream' = s
    /\ tracks' = [tracks EXCEPT ![s] = "live"]
    /\ inputAudioContextRef' =
           IF which = "output" THEN s ELSE inputAudioContextRef
    /\ error' = "start"
    /\ status' = "disconnected"
    /\ startPc' = [startPc EXCEPT ![s] = "failed"]
    /\ UNCHANGED nonLiveVars
    /\ UNCHANGED playVars
    /\ UNCHANGED <<startStream, stopCall, mounted>>
    /\ UNCHANGED <<isConnected, outputAudioContextRef, closedIn, closedOut,
                   scriptProcessorRef, handler, procCtx, sessionPromiseRef,
                   activeSessionRef, promise, ws, stopPc, reactions, sendLog,
                   capLog>>

\* Lines 49-54 and 88-112: onopen, with setupAudioStreaming: it returns at
\* once without an input context, else makes the source and the processor
\* on the context the ref holds, sets onaudioprocess and stores both refs.
OnOpen(s) ==
    /\ ws[s] = "connecting"
    /\ ws' = [ws EXCEPT ![s] = "open"]
    /\ status' = "connected"
    /\ isConnected' = TRUE
    /\ IF inputAudioContextRef = 0
       THEN UNCHANGED <<procCtx, handler, scriptProcessorRef>>
       ELSE /\ procCtx' = [procCtx EXCEPT ![s] = inputAudioContextRef]
            /\ handler' = handler \cup {s}
            /\ scriptProcessorRef' = s
    /\ UNCHANGED nonLiveVars
    /\ UNCHANGED ioVars
    /\ UNCHANGED playVars
    /\ UNCHANGED <<inputAudioContextRef, outputAudioContextRef, closedIn,
                   closedOut, sessionPromiseRef, activeSessionRef, promise,
                   startPc, stopPc, reactions, sendLog, capLog>>

\* The packets of a promise's waiting then-callbacks, sent in the order the
\* callbacks were registered.
Flush(s, frames) == [i \in 1..Len(frames) |-> [session |-> s, frame |-> frames[i]]]

\* The connect promise of an open session resolves.  Its reactions run as
\* microtasks in registration order: startSession's continuation (lines
\* 78-79, registered by the await right after connect) and then the
\* then-callbacks of lines 101-103, each calling sendRealtimeInput.
ConnectResolved(s) ==
    /\ ws[s] = "open"
    /\ promise[s] = "pending"
    /\ promise' = [promise EXCEPT ![s] = "resolved"]
    /\ activeSessionRef' = s
    /\ startPc' = [startPc EXCEPT ![s] = "done"]
    /\ sendLog' = sendLog \o Flush(s, reactions[s])
    /\ reactions' = [reactions EXCEPT ![s] = <<>>]
    /\ UNCHANGED nonLiveVars
    /\ UNCHANGED ioVars
    /\ UNCHANGED playVars
    /\ UNCHANGED <<status, isConnected, inputAudioContextRef,
                   outputAudioContextRef, closedIn, closedOut,
                   scriptProcessorRef, handler, procCtx, sessionPromiseRef,
                   ws, stopPc, capLog>>

\* The connection fails before it opens: the promise rejects, the catch of
\* lines 81-85 runs, and then-callbacks waiting on the promise never run.
ConnectRejected(s) ==
    /\ ws[s] = "connecting"
    /\ promise[s] = "pending"
    /\ promise' = [promise EXCEPT ![s] = "rejected"]
    /\ ws' = [ws EXCEPT ![s] = "closed"]
    /\ error' = "start"
    /\ status' = "disconnected"
    /\ startPc' = [startPc EXCEPT ![s] = "failed"]
    /\ reactions' = [reactions EXCEPT ![s] = <<>>]
    /\ UNCHANGED nonLiveVars
    /\ UNCHANGED <<stream, tracks, startStream, stopCall, mounted>>
    /\ UNCHANGED playVars
    /\ UNCHANGED <<isConnected, inputAudioContextRef, outputAudioContextRef,
                   closedIn, closedOut, scriptProcessorRef, handler, procCtx,
                   sessionPromiseRef, activeSessionRef, stopPc, sendLog,
                   capLog>>

\* Lines 100-104: if (sessionPromiseRef.current) sessionPromiseRef.current
\* .then(session => session.sendRealtimeInput({ media: pcmBlob })).  On a
\* pending promise the callback waits; on a resolved one it runs in this
\* task's microtasks; on a rejected one it never runs.
Deliver(q, f, pr, rs, log) ==
    IF q = 0 THEN [reactions |-> rs, sendLog |-> log]
    ELSE IF pr[q] = "pending"
    THEN [reactions |-> [rs EXCEPT ![q] = Append(@, f)], sendLog |-> log]
    ELSE IF pr[q] = "resolved"
    THEN [reactions |-> rs,
          sendLog |-> Append(log, [session |-> q, frame |-> f])]
    ELSE [reactions |-> rs, sendLog |-> log]

\* Lines 96-105: an onaudioprocess event of processor p, whose handler is
\* set and whose context runs.  The frame is numbered in capture order.
Capture(p) ==
    /\ p \in handler
    /\ procCtx[p] \notin closedIn
    /\ Len(capLog) < MaxFrames
    /\ LET f == Len(capLog) + 1
           d == Deliver(sessionPromiseRef, f, promise, reactions, sendLog)
       IN  /\ capLog' = Append(capLog,
                  [frame |-> f, proc |-> p,
                   streaming |-> (status = "connected" /\ ws[p] = "open"),
                   pending |-> (promise[p] = "pending"),
                   ref |-> sessionPromiseRef])
           /\ reactions' = d.reactions
           /\ sendLog' = d.sendLog
    /\ UNCHANGED nonLiveVars
    /\ UNCHANGED ioVars
    /\ UNCHANGED playVars
    /\ UNCHANGED <<status, isConnected, inputAudioContextRef,
                   outputAudioContextRef, closedIn, closedOut,
                   scriptProcessorRef, handler, procCtx, sessionPromiseRef,
                   activeSessionRef, promise, ws, startPc, stopPc>>

\* src.stop() on every source of the set S: a source still playing is
\* stopped, one that already ended is left as it is.
StopSources(ms, S) ==
    [i \in 1..Len(ms) |->
        IF i \in S /\ ms[i].src = "playing"
        THEN [ms[i] EXCEPT !.src = "stopped"]
        ELSE ms[i]]

\* The part of the state stopSession reads and writes.
StopState ==
    [status |-> status, isConnected |-> isConnected,
     inputAudioContextRef |-> inputAudioContextRef,
     outputAudioContextRef |-> outputAudioContextRef,
     closedIn |-> closedIn, closedOut |-> closedOut,
     handler |-> handler, activeSessionRef |-> activeSessionRef,
     sessionPromiseRef |-> sessionPromiseRef, ws |-> ws,
     sourcesRef |-> sourcesRef, nextStartTimeRef |-> nextStartTimeRef,
     msgs |-> msgs, stream |-> stream, tracks |-> tracks]

\* The tail without lines 178-179: the playback items are left alone.
StopTail_keepSources(st, cs) ==
    [st EXCEPT
        !.inputAudioContextRef = 0,
        !.outputAudioContextRef = 0,
        !.nextStartTimeRef = 0,
        !.tracks = IF cs # 0 THEN [st.tracks EXCEPT ![cs] = "ended"]
                   ELSE st.tracks,
        !.stream = IF cs # 0 THEN 0 ELSE st.stream,
        !.ws = IF st.activeSessionRef # 0 /\ st.ws[st.activeSessionRef] = "open"
               THEN [st.ws EXCEPT ![st.activeSessionRef] = "closing"]
               ELSE st.ws,
        !.activeSessionRef = 0,
        !.sessionPromiseRef = 0]

\* Lines 174-204, after the awaits: the context refs are cleared, every
\* source of the active set is stopped and the set cleared, the tracks of
\* the stream this call's render holds (cs) are stopped and the stream
\* state cleared, the session is closed and its ref cleared, the promise
\* ref is cleared, the cursor reset.
StopTail(st, cs) ==
    [st EXCEPT
        !.inputAudioContextRef = 0,
        !.outputAudioContextRef = 0,
        !.msgs = StopSources(st.msgs, st.sourcesRef),
        !.sourcesRef = {},
        !.nextStartTimeRef = 0,
        !.tracks = IF cs # 0 THEN [st.tracks EXCEPT ![cs] = "ended"]
                   ELSE st.tracks,
        !.stream = IF cs # 0 THEN 0 ELSE st.stream,
        !.ws = IF st.activeSessionRef # 0 /\ st.ws[st.activeSessionRef] = "open"
               THEN [st.ws EXCEPT ![st.activeSessionRef] = "closing"]
               ELSE st.ws,
        !.activeSessionRef = 0,
        !.sessionPromiseRef = 0]

\* Line 173: if (outputAudioContextRef.current) await ....close().  close()
\* on a closed context rejects and the await throws out of stopSession.
StopOutput(st, cs) ==
    IF st.outputAudioContextRef = 0
    THEN [st |-> StopTail(st, cs), pc |-> "done"]
    ELSE IF st.outputAudioContextRef \in st.closedOut
    THEN [st |-> st, pc |-> "threw"]
    ELSE [st |-> [st EXCEPT !.closedOut = @ \cup {st.outputAudioContextRef}],
          pc |-> "awaitOutput"]

\* Line 172: if (inputAudioContextRef.current) await ....close().
StopInput(st, cs) ==
    IF st.inputAudioContextRef = 0
    THEN StopOutput(st, cs)
    ELSE IF st.inputAudioContextRef \in st.closedIn
    THEN [st |-> st, pc |-> "threw"]
    ELSE [st |-> [st EXCEPT !.closedIn = @ \cup {st.inputAudioContextRef}],
          pc |-> "awaitInput"]

\* Lines 161-169, then on to the first await: status and isConnected are
\* reset, the source and the processor the refs hold are disconnected and
\* that processor's onaudioprocess is cleared.
StopBegin(st, cs) ==
    StopInput([st EXCEPT !.status = "disconnected",
                         !.isConnected = FALSE,
                         !.handler = @ \ {scriptProcessorRef}], cs)

\* The state after a stretch of stopSession call k (made as call) that
\* ended as r.
StopApply(k, call, r) ==
    /\ status' = r.st.status
    /\ isConnected' = r.st.isConnected
    /\ inputAudioContextRef' = r.st.inputAudioContextRef
    /\ outputAudioContextRef' = r.st.outputAudioContextRef
    /\ closedIn' = r.st.closedIn
    /\ closedOut' = r.st.closedOut
    /\ handler' = r.st.handler
    /\ activeSessionRef' = r.st.activeSessionRef
    /\ sessionPromiseRef' = r.st.sessionPromiseRef
    /\ ws' = r.st.ws
    /\ sourcesRef' = r.st.sourcesRef
    /\ nextStartTimeRef' = r.st.nextStartTimeRef
    /\ msgs' = r.st.msgs
    /\ stream' = r.st.stream
    /\ tracks' = r.st.tracks
    /\ stopCall' = [stopCall EXCEPT ![k] = call]
    /\ stopPc' = [stopPc EXCEPT ![k] = r.pc]
    /\ UNCHANGED nonLiveVars
    /\ UNCHANGED <<scriptProcessorRef, procCtx, promise, startPc, reactions,
                   sendLog, capLog, startStream, currentTime, microQ>>

\* The next unused stopSession call.
FreshStop(k) ==
    /\ stopPc[k] = "idle"
    /\ \A j \in Stops : j < k => stopPc[j] # "idle"

\* A stopSession call made by caller by, from a render (or a callback made
\* in a render) whose stream state was cs, for session s; streaming tells
\* whether the session was connected and open when the call was made,
\* connecting whether its startSession was still at await sessionPromise.
StopCall(by, cs, s) ==
    [by |-> by, stream |-> cs, session |-> s,
     streaming |-> (s # 0 /\ isConnected /\ status = "connected"
                        /\ ws[s] = "open"),
     connecting |-> (s # 0 /\ startPc[s] = "awaitConnect")]

\* Lines 288-293: the End Session button (shown while isConnected) calls
\* the stopSession of the current render.
UserStop(k) ==
    /\ mounted
    /\ isConnected
    /\ FreshStop(k)
    /\ StopApply(k, StopCall("user", stream, sessionPromiseRef),
                 StopBegin(StopState, stream))
    /\ UNCHANGED <<error, mounted>>

\* Lines 58-61: onclose of session s (the remote end closed, or the close
\* the tail of stopSession asked for went through) calls stopSession: the
\* one of the render startSession was called from.
OnClose(s, k) ==
    /\ ws[s] \in {"open", "closing", "broken"}
    /\ FreshStop(k)
    /\ StopApply(k, StopCall("onclose", startStream[s], s),
                 StopBegin([StopState EXCEPT !.ws[s] = "closed"],
                           startStream[s]))
    /\ UNCHANGED <<error, mounted>>

\* Lines 62-66: onerror of the open session s: setError, then stopSession
\* (not awaited).  The failed socket delivers no further message.
OnError(s, k) ==
    /\ ws[s] = "open"
    /\ FreshStop(k)
    /\ error' = "connection"
    /\ StopApply(k, StopCall("onerror", startStream[s], s),
                 StopBegin([StopState EXCEPT !.ws[s] = "broken"],
                           startStream[s]))
    /\ UNCHANGED mounted

\* Lines 207-213: the effect's cleanup on unmount calls the stopSession of
\* the first render, whose stream state is undefined.
Unmount(k) ==
    /\ mounted
    /\ FreshStop(k)
    /\ mounted' = FALSE
    /\ StopApply(k, StopCall("unmount", 0, sessionPromiseRef),
                 StopBegin(StopState, 0))
    /\ UNCHANGED error

\* stopSession call k resumes after await inputAudioContextRef.current.close().
StopAfterInput(k) ==
    /\ stopPc[k] = "awaitInput"
    /\ StopApply(k, stopCall[k], StopOutput(StopState, stopCall[k].stream))
    /\ UNCHANGED <<error, mounted>>

\* stopSession call k resumes after await outputAudioContextRef.current.close().
StopAfterOutput(k) ==
    /\ stopPc[k] = "awaitOutput"
    /\ StopApply(k, stopCall[k],
                 [st |-> StopTail(StopState, stopCall[k].stream),
                  pc |-> "done"])
    /\ UNCHANGED <<error, mounted>>

LiveNext ==
    \/ \E s \in Sessions : StartSession(s)
    \/ \E s \in Sessions : GetUserMediaResolved(s)
    \/ \E s \in Sessions : GetUserMediaRejected(s)
    \/ \E s \in Sessions, which \in {"input", "output"} :
           ContextCreationFailed(s, which)
    \/ \E s \in Sessions : OnOpen(s)
    \/ \E s \in Sessions : ConnectResolved(s)
    \/ \E s \in Sessions : ConnectRejected(s)
    \/ \E p \in Sessions : Capture(p)
    \/ \E k \in Stops : UserStop(k)
    \/ \E s \in Sessions, k \in Stops : OnClose(s, k)
    \/ \E k \in Stops : StopAfterInput(k)
    \/ \E k \in Stops : StopAfterOutput(k)

-----------------------------------------------------------------------------
(* Live session, playback scheduler: handleServerMessage, lines 114-158 of *)
(* src/components/LiveSession.tsx.  Times are whole clock ticks.  A handler *)
(* runs to its await of decodeAudioData and is resumed later; handlers      *)
(* suspended there resume in the order they were suspended, the promise of  *)
(* decodeAudioData (an async function without an await of its own) being    *)
(* settled when it is returned.                                             *)

\* onmessage calls.
MaxMessages == 3
\* The last tick of an output clock.
MaxClock == 3
\* The longest audio segment, in ticks.
MaxDuration == 2

Durations == 1..MaxDuration

\* What a server message carries: serverContent.interrupted, and inline
\* audio data that is absent, decodes to a buffer of some duration, or holds
\* an odd number of bytes (new Int16Array(data.buffer) throws a RangeError).
MessageKinds ==
    [interrupted : BOOLEAN, audio : {"none", "odd"}, duration : {0}]
        \cup [interrupted : BOOLEAN, audio : {"ok"}, duration : Durations]

\* The interrupted messages handled so far (with an output context).
InterruptionsHandled(ms) ==
    Cardinality({i \in 1..Len(ms) : ms[i].interrupted /\ ms[i].ctx # 0})

\* The source.start calls made so far.
StartsMade(ms) == Cardinality({i \in 1..Len(ms) : ms[i].src # "none"})

\* What is recorded of an onmessage call when it arrives.
Arrival(s, k, ctx) ==
    [session |-> s, ctx |-> ctx, interrupted |-> k.interrupted,
     audio |-> k.audio, duration |-> k.duration,
     preSources |-> sourcesRef, preCursor |-> nextStartTimeRef,
     inFlight |-> Len(microQ),
     intrSources |-> {}, intrCursor |-> 0, now0 |-> 0, cursor0 |-> 0,
     pc |-> "returned", src |-> "none",
     startAt |-> 0, startClock |-> 0, cursorAfter |-> 0, startOrd |-> 0,
     intrSeen |-> 0]

\* Lines 118-127 with the cursor left as it is.
Interrupt_keepCursor(st) ==
    [msgs |-> StopSources(st.msgs, st.sourcesRef),
     sourcesRef |-> {},
     nextStartTimeRef |-> st.nextStartTimeRef]

\* Lines 118-127: the interruption block.  Every source of the active set
\* is stopped (an exception of stop() is swallowed), the set is cleared and
\* the cursor is reset to 0.
Interrupt(st) ==
    [msgs |-> StopSources(st.msgs, st.sourcesRef),
     sourcesRef |-> {},
     nextStartTimeRef |-> 0]

\* The scheduler state the interruption block works on.
SchedulerState ==
    [msgs |-> msgs, sourcesRef |-> sourcesRef,
     nextStartTimeRef |-> nextStartTimeRef]

\* Lines 133-137 with the clock ignored.
Clamp_keep(cursor, now) == cursor

\* Lines 133-137: if (nextStartTimeRef.current < currentTime)
\* nextStartTimeRef.current = currentTime.
ClampCursor(cursor, now) == IF cursor < now THEN now ELSE cursor

\* A handler without the test of line 116: it goes on without an output
\* context, reading the clock of the session's closed one.
OnMessage_noContextTest(s, k) ==
    /\ ws[s] \in {"open", "closing"}
    /\ Len(msgs) < MaxMessages
    /\ LET m   == Len(msgs) + 1
           ctx == outputAudioContextRef
           a   == Arrival(s, k, ctx)
       IN  IF FALSE
           THEN /\ msgs' = Append(msgs, a)
                /\ UNCHANGED <<nextStartTimeRef, sourcesRef, microQ>>
           ELSE LET st  == IF k.interrupted THEN Interrupt(SchedulerState)
                           ELSE SchedulerState
                    now == currentTime[s]
                    b   == [a EXCEPT !.intrSources = st.sourcesRef,
                                     !.intrCursor = st.nextStartTimeRef,
                                     !.now0 = now,
                                     !.cursor0 = st.nextStartTimeRef]
                IN  /\ sourcesRef' = st.sourcesRef
                    /\ IF k.audio = "none"
                       THEN /\ nextStartTimeRef' = st.nextStartTimeRef
                            /\ msgs' = Append(st.msgs, [b EXCEPT !.pc = "done"])
                            /\ microQ' = microQ
                       ELSE /\ nextStartTimeRef' =
                                   ClampCursor(st.nextStartTimeRef, now)
                            /\ msgs' = Append(st.msgs, [b EXCEPT !.pc = "await"])
                            /\ microQ' = Append(microQ, m)
    /\ UNCHANGED currentTime
    /\ UNCHANGED nonLiveVars
    /\ UNCHANGED ioVars
    /\ UNCHANGED <<status, isConnected, inputAudioContextRef,
                   outputAudioContextRef, closedIn, closedOut,
                   scriptProcessorRef, handler, procCtx, sessionPromiseRef,
                   activeSessionRef, promise, ws, startPc, stopPc, reactions,
                   sendLog, capLog>>

\* Lines 55-57 and 114-140: onmessage of session s with a message of kind
\* k; handleServerMessage runs to its return or to the await of line 140.
\* A socket that is being closed still delivers the messages under way.
OnMessage(s, k) ==
    /\ ws[s] \in {"open", "closing"}
    /\ Len(msgs) < MaxMessages
    /\ LET m   == Len(msgs) + 1
           ctx == outputAudioContextRef
           a   == Arrival(s, k, ctx)
       IN  IF ctx = 0
           THEN /\ msgs' = Append(msgs, a)
                /\ UNCHANGED <<nextStartTimeRef, sourcesRef, microQ>>
           ELSE LET st  == IF k.interrupted THEN Interrupt(SchedulerState)
                           ELSE SchedulerState
                    now == currentTime[ctx]
                    b   == [a EXCEPT !.intrSources = st.sourcesRef,
                                     !.intrCursor = st.nextStartTimeRef,
                                     !.now0 = now,
                                     !.cursor0 = st.nextStartTimeRef]
                IN  /\ sourcesRef' = st.sourcesRef
                    /\ IF k.audio = "none"
                       THEN /\ nextStartTimeRef' = st.nextStartTimeRef
                            /\ msgs' = Append(st.msgs, [b EXCEPT !.pc = "done"])
                            /\ microQ' = microQ
                       ELSE /\ nextStartTimeRef' =
                                   ClampCursor(st.nextStartTimeRef, now)
                            /\ msgs' = Append(st.msgs, [b EXCEPT !.pc = "await"])
                            /\ microQ' = Append(microQ, m)
    /\ UNCHANGED currentTime
    /\ UNCHANGED nonLiveVars
    /\ UNCHANGED ioVars
    /\ UNCHANGED <<status, isConnected, inputAudioContextRef,
                   outputAudioContextRef, closedIn, closedOut,
                   scriptProcessorRef, handler, procCtx, sessionPromiseRef,
                   activeSessionRef, promise, ws, startPc, stopPc, reactions,
                   sendLog, capLog>>

\* Line 153 left out: the cursor stays where the item starts.
Advance_keep(cursor, d) == cursor

\* Line 153: nextStartTimeRef.current += audioBuffer.duration.
Advance(cursor, d) == cursor + d

\* A scheduler that resumes the handler suspended last.
Resume_newestFirst ==
    /\ microQ # <<>>
    /\ LET m == microQ[Len(microQ)]
           r == msgs[m]
       IN  /\ microQ' = SubSeq(microQ, 1, Len(microQ) - 1)
           /\ IF r.audio = "odd"
              THEN /\ msgs' = [msgs EXCEPT ![m].pc = "caught"]
                   /\ UNCHANGED <<nextStartTimeRef, sourcesRef>>
              ELSE /\ msgs' = [msgs EXCEPT ![m] =
                          [r EXCEPT !.pc = "done", !.src = "playing",
                                    !.startAt = nextStartTimeRef,
                                    !.startClock = currentTime[r.ctx],
                                    !.cursorAfter =
                                        Advance(nextStartTimeRef, r.duration),
                                    !.startOrd = StartsMade(msgs) + 1,
                                    !.intrSeen = InterruptionsHandled(msgs)]]
                   /\ sourcesRef' = sourcesRef \cup {m}
                   /\ nextStartTimeRef' = Advance(nextStartTimeRef, r.duration)
    /\ UNCHANGED currentTime
    /\ UNCHANGED nonLiveVars
    /\ UNCHANGED ioVars
    /\ UNCHANGED <<status, isConnected, inputAudioContextRef,
                   outputAudioContextRef, closedIn, closedOut,
                   scriptProcessorRef, handler, procCtx, sessionPromiseRef,
                   activeSessionRef, promise, ws, startPc, stopPc, reactions,
                   sendLog, capLog>>

\* A handler whose catch moves the cursor on by a tick.
Resume_failAdvances ==
    /\ microQ # <<>>
    /\ LET m == Head(microQ)
           r == msgs[m]
       IN  /\ microQ' = Tail(microQ)
           /\ IF r.audio = "odd"
              THEN /\ msgs' = [msgs EXCEPT ![m].pc = "caught"]
                   /\ nextStartTimeRef' = nextStartTimeRef + 1
                   /\ UNCHANGED sourcesRef
              ELSE /\ msgs' = [msgs EXCEPT ![m] =
                          [r EXCEPT !.pc = "done", !.src = "playing",
                                    !.startAt = nextStartTimeRef,
                                    !.startClock = currentTime[r.ctx],
                                    !.cursorAfter =
                                        Advance(nextStartTimeRef, r.duration),
                                    !.startOrd = StartsMade(msgs) + 1,
                                    !.intrSeen = InterruptionsHandled(msgs)]]
                   /\ sourcesRef' = sourcesRef \cup {m}
                   /\ nextStartTimeRef' = Advance(nextStartTimeRef, r.duration)
    /\ UNCHANGED currentTime
    /\ UNCHANGED nonLiveVars
    /\ UNCHANGED ioVars
    /\ UNCHANGED <<status, isConnected, inputAudioContextRef,
                   outputAudioContextRef, closedIn, closedOut,
                   scriptProcessorRef, handler, procCtx, sessionPromiseRef,
                   activeSessionRef, promise, ws, startPc, stopPc, reactions,
                   sendLog, capLog>>

\* Lines 140-156: the oldest suspended handler resumes.  A rejected decode
\* is caught and logged; else the source is made, started at the cursor,
\* added to the active set, and the cursor advances by the duration.
Resume ==
    /\ microQ # <<>>
    /\ LET m == Head(microQ)
           r == msgs[m]
       IN  /\ microQ' = Tail(microQ)
           /\ IF r.audio = "odd"
              THEN /\ msgs' = [msgs EXCEPT ![m].pc = "caught"]
                   /\ UNCHANGED <<nextStartTimeRef, sourcesRef>>
              ELSE /\ msgs' = [msgs EXCEPT ![m] =
                          [r EXCEPT !.pc = "done", !.src = "playing",
                                    !.startAt = nextStartTimeRef,
                                    !.startClock = currentTime[r.ctx],
                                    !.cursorAfter =
                                        Advance(nextStartTimeRef, r.duration),
                                    !.startOrd = StartsMade(msgs) + 1,
                                    !.intrSeen = InterruptionsHandled(msgs)]]
                   /\ sourcesRef' = sourcesRef \cup {m}
                   /\ nextStartTimeRef' = Advance(nextStartTimeRef, r.duration)
    /\ UNCHANGED currentTime
    /\ UNCHANGED nonLiveVars
    /\ UNCHANGED ioVars
    /\ UNCHANGED <<status, isConnected, inputAudioContextRef,
                   outputAudioContextRef, closedIn, closedOut,
                   scriptProcessorRef, handler, procCtx, sessionPromiseRef,
                   activeSessionRef, promise, ws, startPc, stopPc, reactions,
                   sendLog, capLog>>

\* The clock of the running output context of session s moves on.
Tick(s) ==
    /\ ws[s] # "none"
    /\ s \notin closedOut
    /\ currentTime[s] < MaxClock
    /\ currentTime' = [currentTime EXCEPT ![s] = @ + 1]
    /\ UNCHANGED nonLiveVars
    /\ UNCHANGED ioVars
    /\ UNCHANGED <<status, isConnected, inputAudioContextRef,
                   outputAudioContextRef, closedIn, closedOut,
                   scriptProcessorRef, handler, procCtx, sessionPromiseRef,
                   activeSessionRef, promise, ws, startPc, stopPc, reactions,
                   sendLog, capLog, nextStartTimeRef, sourcesRef, msgs,
                   microQ>>

\* When a source started at startAt while the clock read startClock has
\* played its buffer through: a start time in the past plays at once.
PlayedThrough(r) ==
    currentTime[r.ctx] >= Max(r.startAt, r.startClock) + r.duration

\* An onended handler that leaves the set as it is.
OnEnded_keep(m) ==
    /\ m \in 1..Len(msgs)
    /\ msgs[m].src = "playing"
    /\ msgs[m].ctx \notin closedOut
    /\ PlayedThrough(msgs[m])
    /\ msgs' = [msgs EXCEPT ![m].src = "ended"]
    /\ UNCHANGED nonLiveVars
    /\ UNCHANGED ioVars
    /\ UNCHANGED <<status, isConnected, inputAudioContextRef,
                   outputAudioContextRef, closedIn, closedOut,
                   scriptProcessorRef, handler, procCtx, sessionPromiseRef,
                   activeSessionRef, promise, ws, startPc, stopPc, reactions,
                   sendLog, capLog, nextStartTimeRef, sourcesRef, currentTime,
                   microQ>>

\* Lines 146-148: onended of the source of message m, which played its
\* buffer through on a running context.
OnEnded(m) ==
    /\ m \in 1..Len(msgs)
    /\ msgs[m].src = "playing"
    /\ msgs[m].ctx \notin closedOut
    /\ PlayedThrough(msgs[m])
    /\ msgs' = [msgs EXCEPT ![m].src = "ended"]
    /\ sourcesRef' = sourcesRef \ {m}
    /\ UNCHANGED nonLiveVars
    /\ UNCHANGED ioVars
    /\ UNCHANGED <<status, isConnected, inputAudioContextRef,
                   outputAudioContextRef, closedIn, closedOut,
                   scriptProcessorRef, handler, procCtx, sessionPromiseRef,
                   activeSessionRef, promise, ws, startPc, stopPc, reactions,
                   sendLog, capLog, nextStartTimeRef, currentTime, microQ>>

PlayNext ==
    \/ \E s \in Sessions, k \in MessageKinds : OnMessage(s, k)
    \/ Resume
    \/ \E s \in Sessions : Tick(s)
    \/ \E m \in 1..MaxMessages : OnEnded(m)

\* Session 1 started, open and its connect promise resolved: the state
\* after StartSession(1), GetUserMediaResolved(1), OnOpen(1),
\* ConnectResolved(1), with no message received yet.
PlayInit ==
    /\ status = "connected"
    /\ isConnected = TRUE
    /\ inputAudioContextRef = 1
    /\ outputAudioContextRef = 1
    /\ closedIn = {}
    /\ closedOut = {}
    /\ scriptProcessorRef = 1
    /\ handler = {1}
    /\ procCtx = [s \in Sessions |-> IF s = 1 THEN 1 ELSE 0]
    /\ sessionPromiseRef = 1
    /\ activeSessionRef = 1
    /\ promise = [s \in Sessions |-> IF s = 1 THEN "resolved" ELSE "none"]
    /\ ws = [s \in Sessions |-> IF s = 1 THEN "open" ELSE "none"]
    /\ startPc = [s \in Sessions |-> IF s = 1 THEN "done" ELSE "idle"]
    /\ stopPc = [k \in Stops |-> "idle"]
    /\ reactions = [s \in Sessions |-> <<>>]
    /\ sendLog = <<>>
    /\ capLog = <<>>
    /\ stream = 1
    /\ tracks = [s \in Sessions |-> IF s = 1 THEN "live" ELSE "none"]
    /\ startStream = [s \in Sessions |-> 0]
    /\ stopCall = [k \in Stops |-> NoCall]
    /\ error = "none"
    /\ mounted = TRUE
    /\ nextStartTimeRef = 0
    /\ sourcesRef = {}
    /\ currentTime = [s \in Sessions |-> 0]
    /\ msgs = <<>>
    /\ microQ = <<>>

-----------------------------------------------------------------------------
(* Transcription dispatcher: src/components/AudioTranscriber.tsx.  Every   *)
(* action is one task: a click, or the stretch of handleTranscriptionFlow  *)
(* and transcribeSingleFile between two awaits.                            *)

\* Line 9.
CHUNK_DELAY_MS == 5000
\* Line 11.
RETRY_DELAY_MS == 5000
\* Line 169.
maxRetries == 3

\* The most parts a selected file has.
MaxParts == 3
\* handleTranscriptionFlow calls.
MaxFlows == 2

Flows == 1..MaxFlows

\* How a generateContent call ends: with a text, with an empty text, with
\* an error whose message holds "503", "overloaded", "UNAVAILABLE" or "429",
\* or with any other error.
Outcomes == {"text", "empty", "transient", "fatal"}

\* The parts of file x when it has n of them.
PartsOf(x, n) == [p \in 1..n |-> [file |-> x, part |-> p]]

\* Line 6: const MAX_FILE_SIZE = 15 * 1024 * 1024.
MAX_FILE_SIZE == 15728640

\* handleFileSelection calls.
MaxSelections == 2

Selections == 1..MaxSelections

\* No file: the argument of a call not yet made.
NoFile == [size |-> 0, len |-> 0, rate |-> 0]

\* The files offered: size is file.size in bytes, len and rate are the
\* frames and the sample rate its content decodes to.  One file of exactly
\* MAX_FILE_SIZE bytes, and larger ones lasting exactly 300 s, one frame
\* more than 300 s, and one frame more than 600 s.
Files ==
    {[size |-> MAX_FILE_SIZE, len |-> TARGET_SAMPLE_RATE,
      rate |-> TARGET_SAMPLE_RATE]}
    \cup {[size |-> MAX_FILE_SIZE + 1, len |-> in.len, rate |-> in.rate] :
            in \in {x \in SplitInputs :
                      /\ x.rate = TARGET_SAMPLE_RATE
                      /\ x.len \in {CHUNK_DURATION_SEC * x.rate,
                                    CHUNK_DURATION_SEC * x.rate + 1,
                                    2 * CHUNK_DURATION_SEC * x.rate + 1}}}

\* A size test that splits only files of more than twice the limit.
NeedsSplit_double(file) == file.size > 2 * MAX_FILE_SIZE

\* Line 39: if (file.size > MAX_FILE_SIZE).
NeedsSplit(file) == file.size > MAX_FILE_SIZE

\* The slicing loop of splitAudio (part_001, lines 163-178) from startSample
\* on, as the list of the files it pushes.
RECURSIVE SliceAll(_, _, _)
SliceAll(len, start, index) ==
    IF start < len
    THEN LET endSample == EndSample(start, len)
         IN  <<ChunkFile(index, TypedSlice(len, start, endSample))>>
             \o SliceAll(len, endSample, index + 1)
    ELSE <<>>

\* splitAudio(file) (part_001, lines 126-181) as a function of the decoded
\* content: the files returned, or threw when the rendering cannot be made.
splitAudio(file) ==
    LET n == CHOOSE x \in RenderLengths(file.len, file.rate) : TRUE
    IN  IF DurationLE(file.len, file.rate, CHUNK_DURATION_SEC)
        THEN [threw |-> n = 0,
              chunks |-> IF n = 0 THEN <<>>
                         ELSE <<ChunkFile(1, [start |-> 0, end |-> n])>>]
        ELSE [threw |-> FALSE, chunks |-> SliceAll(n, 0, 1)]

\* The parts handleFileSelection sets for a file (lines 46-48, 59).
PartCount(file) ==
    IF NeedsSplit(file) THEN Len(splitAudio(file).chunks) ELSE 1

\* file.size of a part: the file itself when it was not split, else the
\* WAV of its slice, header and 2 bytes a sample (part_001, lines 187-189).
PartBytes(file, p) ==
    IF NeedsSplit(file)
    THEN LET c == splitAudio(file).chunks[p]
         IN  WavHeaderBytes + 2 * (c.end - c.start)
    ELSE file.size

\* No handleFileSelection call has been made.
SelectIdle ==
    /\ selPc = [c \in Selections |-> "idle"]
    /\ selFile = [c \in Selections |-> NoFile]

\* The component as mounted: the useState initial values (lines 15-29).
DispIdle ==
    /\ isProcessing = FALSE
    /\ isSplitting = FALSE
    /\ processingStatus = ""
    /\ transcription = <<>>
    /\ selectedFile = 0
    /\ fileParts = <<>>
    /\ autoAnalyze = TRUE
    /\ fPc = [f \in Flows |-> "idle"]
    /\ fParts = [f \in Flows |-> <<>>]
    /\ fI = [f \in Flows |-> 0]
    /\ fAttempt = [f \in Flows |-> 0]
    /\ fFull = [f \in Flows |-> <<>>]
    /\ inFlight = {}
    /\ dLog = <<>>
    /\ SelectIdle

\* A file has been selected and its parts are set (handleFileSelection,
\* lines 32-62, has finished); the auto-analysis toggle is on or off.
DispInit ==
    /\ isProcessing = FALSE
    /\ isSplitting = FALSE
    /\ processingStatus = ""
    /\ transcription = <<>>
    /\ selectedFile = 1
    /\ \E file \in Files :
           /\ fileParts = PartsOf(1, PartCount(file))
           /\ selPc = [c \in Selections |-> IF c = 1 THEN "done" ELSE "idle"]
           /\ selFile = [c \in Selections |-> IF c = 1 THEN file ELSE NoFile]
    /\ autoAnalyze \in BOOLEAN
    /\ fPc = [f \in Flows |-> "idle"]
    /\ fParts = [f \in Flows |-> <<>>]
    /\ fI = [f \in Flows |-> 0]
    /\ fAttempt = [f \in Flows |-> 0]
    /\ fFull = [f \in Flows |-> <<>>]
    /\ inFlight = {}
    /\ dLog = <<>>

\* An entry of the log.
Event(f, type, ms, outcome) ==
    [flow |-> f, type |-> type, part |-> fI[f] + 1, attempt |-> fAttempt[f],
     ms |-> ms, outcome |-> outcome]

\* The Start button of lines 290-292 with its disabled attribute left out.
CanStart_whileProcessing ==
    /\ ~isSplitting
    /\ selectedFile # 0

\* Lines 246-292: the Start button is shown while a file is selected and
\* no split is running, and is disabled while isProcessing.
CanStart ==
    /\ ~isSplitting
    /\ selectedFile # 0
    /\ ~isProcessing

\* The next unused handleTranscriptionFlow call.
FreshFlow(f) ==
    /\ fPc[f] = "idle"
    /\ \A g \in Flows : g < f => fPc[g] # "idle"

\* Lines 83-87 and 112-133, 162-164: the Start button calls processFile;
\* with a file and parts, handleTranscriptionFlow begins, enters the loop
\* at i = 0 (no delay) and transcribeSingleFile awaits blobToBase64.
ProcessFile(f) ==
    /\ CanStart
    /\ FreshFlow(f)
    /\ IF selectedFile # 0 /\ Len(fileParts) > 0
       THEN /\ isProcessing' = TRUE
            /\ processingStatus' = "transcribing"
            /\ fPc' = [fPc EXCEPT ![f] = "read"]
            /\ fParts' = [fParts EXCEPT ![f] = fileParts]
            /\ fI' = [fI EXCEPT ![f] = 0]
            /\ fFull' = [fFull EXCEPT ![f] = <<>>]
       ELSE /\ fPc' = [fPc EXCEPT ![f] = "done"]
            /\ UNCHANGED <<isProcessing, processingStatus, fParts, fI, fFull>>
    /\ UNCHANGED <<isSplitting, transcription, selectedFile, fileParts,
                   autoAnalyze, fAttempt, inFlight, dLog>>
    /\ UNCHANGED <<codecVars, splitVars, pcmVars, liveVars, selVars>>

\* Lines 169-187: blobToBase64 resolved; attempt = 0 and the first
\* generateContent call of the part is made.
ReadDone(f) ==
    /\ fPc[f] = "read"
    /\ fAttempt' = [fAttempt EXCEPT ![f] = 0]
    /\ fPc' = [fPc EXCEPT ![f] = "call"]
    /\ inFlight' = inFlight \cup {[flow |-> f, part |-> fI[f] + 1, attempt |-> 0]}
    /\ dLog' = Append(dLog, [Event(f, "call", 0, "") EXCEPT !.attempt = 0])
    /\ UNCHANGED <<isProcessing, isSplitting, processingStatus, transcription,
                   selectedFile, fileParts, autoAnalyze, fParts, fI, fFull>>
    /\ UNCHANGED <<codecVars, splitVars, pcmVars, liveVars, selVars>>

\* The token of the error message appended on an abort.
ErrorText(f) == [file |-> 0, part |-> 0]

\* A catch that shows the error message alone.
Abort_overwrite(f) ==
    /\ transcription' = <<ErrorText(f)>>
    /\ isProcessing' = FALSE
    /\ processingStatus' = ""
    /\ fPc' = [fPc EXCEPT ![f] = "aborted"]

\* Lines 152-158: the catch and the finally of handleTranscriptionFlow.
\* setTranscription(prev => prev + ...) appends to the state's value.
Abort(f) ==
    /\ transcription' = Append(transcription, ErrorText(f))
    /\ isProcessing' = FALSE
    /\ processingStatus' = ""
    /\ fPc' = [fPc EXCEPT ![f] = "aborted"]

\* Lines 64-65 and 208-211: blobToBase64 rejected; the error is thrown on
\* to the loop.
ReadFailed(f) ==
    /\ fPc[f] = "read"
    /\ Abort(f)
    /\ UNCHANGED <<isSplitting, selectedFile, fileParts, autoAnalyze, fParts,
                   fI, fAttempt, fFull, inFlight, dLog>>
    /\ UNCHANGED <<codecVars, splitVars, pcmVars, liveVars, selVars>>

\* Line 192.
isOverloaded(outcome) == outcome = "transient"

\* A test that retries whatever the error.
ShouldRetry_anyError(overloaded, attempt) == attempt < maxRetries - 1

\* A test that allows one retry more.
ShouldRetry_oneMore(overloaded, attempt) == overloaded /\ attempt < maxRetries

\* Line 194: if (isOverloaded && attempt < maxRetries - 1).
ShouldRetry(overloaded, attempt) == overloaded /\ attempt < maxRetries - 1

\* A wait that does not grow.
waitTime_flat(attempt) == RETRY_DELAY_MS

\* Line 196: const waitTime = RETRY_DELAY_MS * attempt.
waitTime(attempt) == RETRY_DELAY_MS * attempt

\* A loop that never waits between parts.
NeedsChunkDelay_never(i) == FALSE

\* Line 128: if (i > 0).
NeedsChunkDelay(i) == i > 0

\* A loop that puts each new text in front of fullTranscript.
CallSucceeds_prepend(f, outcome) ==
    LET token == fParts[f][fI[f] + 1]
        full  == IF outcome = "text" THEN <<token>> \o fFull[f] ELSE fFull[f]
        shown == IF outcome = "text" THEN full ELSE transcription
        i     == fI[f] + 1
    IN  /\ fFull' = [fFull EXCEPT ![f] = full]
        /\ dLog' = dLog \o <<Event(f, "return", 0, outcome)>> \o
                   (IF i < Len(fParts[f]) /\ NeedsChunkDelay(i)
                    THEN <<[flow |-> f, type |-> "delay", part |-> i + 1,
                            attempt |-> 0, ms |-> CHUNK_DELAY_MS,
                            outcome |-> ""]>>
                    ELSE <<>>)
        /\ IF i < Len(fParts[f])
           THEN /\ fI' = [fI EXCEPT ![f] = i]
                /\ transcription' = shown
                /\ processingStatus' = "transcribing"
                /\ isProcessing' = isProcessing
                /\ fPc' = [fPc EXCEPT ![f] =
                        IF NeedsChunkDelay(i) THEN "chunkDelay" ELSE "read"]
           ELSE /\ fI' = [fI EXCEPT ![f] = i]
                /\ IF full = <<>>
                   THEN /\ transcription' = <<[file |-> 0, part |-> -1]>>
                        /\ isProcessing' = FALSE
                        /\ processingStatus' = ""
                        /\ fPc' = [fPc EXCEPT ![f] = "done"]
                   ELSE /\ transcription' = shown
                        /\ IF autoAnalyze
                           THEN /\ isProcessing' = isProcessing
                                /\ processingStatus' = "analyzing"
                                /\ fPc' = [fPc EXCEPT ![f] = "analysis"]
                           ELSE /\ isProcessing' = FALSE
                                /\ processingStatus' = ""
                                /\ fPc' = [fPc EXCEPT ![f] = "done"]
        /\ UNCHANGED fAttempt

\* Lines 188, 135-158: the call returned a text or an empty text.  A text
\* is appended to fullTranscript and shown; then the loop goes on to the
\* next part (its delay, lines 125-130) or ends (lines 142-150, 155-158).
CallSucceeds(f, outcome) ==
    LET token == fParts[f][fI[f] + 1]
        full  == IF outcome = "text" THEN Append(fFull[f], token) ELSE fFull[f]
        shown == IF outcome = "text" THEN full ELSE transcription
        i     == fI[f] + 1
    IN  /\ fFull' = [fFull EXCEPT ![f] = full]
        /\ dLog' = dLog \o <<Event(f, "return", 0, outcome)>> \o
                   (IF i < Len(fParts[f]) /\ NeedsChunkDelay(i)
                    THEN <<[flow |-> f, type |-> "delay", part |-> i + 1,
                            attempt |-> 0, ms |-> CHUNK_DELAY_MS,
                            outcome |-> ""]>>
                    ELSE <<>>)
        /\ IF i < Len(fParts[f])
           THEN /\ fI' = [fI EXCEPT ![f] = i]
                /\ transcription' = shown
                /\ processingStatus' = "transcribing"
                /\ isProcessing' = isProcessing
                /\ fPc' = [fPc EXCEPT ![f] =
                        IF NeedsChunkDelay(i) THEN "chunkDelay" ELSE "read"]
           ELSE /\ fI' = [fI EXCEPT ![f] = i]
                /\ IF full = <<>>
                   THEN /\ transcription' = <<[file |-> 0, part |-> -1]>>
                        /\ isProcessing' = FALSE
                        /\ processingStatus' = ""
                        /\ fPc' = [fPc EXCEPT ![f] = "done"]
                   ELSE /\ transcription' = shown
                        /\ IF autoAnalyze
                           THEN /\ isProcessing' = isProcessing
                                /\ processingStatus' = "analyzing"
                                /\ fPc' = [fPc EXCEPT ![f] = "analysis"]
                           ELSE /\ isProcessing' = FALSE
                                /\ processingStatus' = ""
                                /\ fPc' = [fPc EXCEPT ![f] = "done"]
        /\ UNCHANGED fAttempt

\* A failure handler that retries without counting the attempt (attempt++
\* of line 190 left out).
CallFails_sameAttempt(f, outcome) ==
    IF ShouldRetry(isOverloaded(outcome), fAttempt[f])
    THEN /\ fAttempt' = fAttempt
         /\ dLog' = dLog \o <<Event(f, "return", 0, outcome),
                              [Event(f, "wait", waitTime(fAttempt[f] + 1), "")
                                  EXCEPT !.attempt = fAttempt[f] + 1]>>
         /\ processingStatus' = "retrying"
         /\ fPc' = [fPc EXCEPT ![f] = "retryDelay"]
         /\ UNCHANGED <<transcription, isProcessing, fI, fFull>>
    ELSE /\ dLog' = Append(dLog, Event(f, "return", 0, outcome))
         /\ Abort(f)
         /\ UNCHANGED <<fI, fFull, fAttempt>>

\* Lines 189-205: the call failed.  An overloaded error with retries left
\* raises attempt and waits waitTime; any other error is thrown to the loop.
CallFails(f, outcome) ==
    IF ShouldRetry(isOverloaded(outcome), fAttempt[f])
    THEN /\ fAttempt' = [fAttempt EXCEPT ![f] = @ + 1]
         /\ dLog' = dLog \o <<Event(f, "return", 0, outcome),
                              [Event(f, "wait", waitTime(fAttempt[f] + 1), "")
                                  EXCEPT !.attempt = fAttempt[f] + 1]>>
         /\ processingStatus' = "retrying"
         /\ fPc' = [fPc EXCEPT ![f] = "retryDelay"]
         /\ UNCHANGED <<transcription, isProcessing, fI, fFull>>
    ELSE /\ dLog' = Append(dLog, Event(f, "return", 0, outcome))
         /\ Abort(f)
         /\ UNCHANGED <<fI, fFull, fAttempt>>

\* Lines 174-205 and on: the generateContent call of flow f returns.
CallReturns(f, outcome) ==
    /\ fPc[f] = "call"
    /\ inFlight' = inFlight \ {[flow |-> f, part |-> fI[f] + 1,
                                attempt |-> fAttempt[f]]}
    /\ IF outcome \in {"text", "empty"}
       THEN CallSucceeds(f, outcome)
       ELSE CallFails(f, outcome)
    /\ UNCHANGED <<isSplitting, selectedFile, fileParts, autoAnalyze, fParts>>
    /\ UNCHANGED <<codecVars, splitVars, pcmVars, liveVars, selVars>>

\* Lines 129 and 133, 162-164: the timer of the delay between parts fires;
\* transcribeSingleFile is called and awaits blobToBase64.
ChunkDelayDone(f) ==
    /\ fPc[f] = "chunkDelay"
    /\ fPc' = [fPc EXCEPT ![f] = "read"]
    /\ UNCHANGED <<isProcessing, isSplitting, processingStatus, transcription,
                   selectedFile, fileParts, autoAnalyze, fParts, fI, fAttempt,
                   fFull, inFlight, dLog>>
    /\ UNCHANGED <<codecVars, splitVars, pcmVars, liveVars, selVars>>

\* Lines 199-200, 172-187: the timer of the retry wait fires; the loop
\* continues (attempt < maxRetries) and the next call is made.
RetryDelayDone(f) ==
    /\ fPc[f] = "retryDelay"
    /\ IF fAttempt[f] < maxRetries
       THEN /\ fPc' = [fPc EXCEPT ![f] = "call"]
            /\ inFlight' = inFlight \cup {[flow |-> f, part |-> fI[f] + 1,
                                           attempt |-> fAttempt[f]]}
            /\ dLog' = Append(dLog, Event(f, "call", 0, ""))
            /\ UNCHANGED <<fI, fFull, transcription, isProcessing,
                           processingStatus>>
       ELSE \* line 207: return "" out of the while loop
            /\ inFlight' = inFlight
            /\ CallSucceeds(f, "empty")
    /\ UNCHANGED <<isSplitting, selectedFile, fileParts, autoAnalyze, fParts,
                   fAttempt>>
    /\ UNCHANGED <<codecVars, splitVars, pcmVars, liveVars, selVars>>

\* Lines 148, 89-109, 155-158: runAnalysis returns (its own errors are
\* caught inside it); the finally of the flow runs.
AnalysisDone(f) ==
    /\ fPc[f] = "analysis"
    /\ fPc' = [fPc EXCEPT ![f] = "done"]
    /\ isProcessing' = FALSE
    /\ processingStatus' = ""
    /\ UNCHANGED <<isSplitting, transcription, selectedFile, fileParts,
                   autoAnalyze, fParts, fI, fAttempt, fFull, inFlight, dLog>>
    /\ UNCHANGED <<codecVars, splitVars, pcmVars, liveVars, selVars>>

DispNext ==
    \/ \E f \in Flows : ProcessFile(f)
    \/ \E f \in Flows : ReadDone(f)
    \/ \E f \in Flows : ReadFailed(f)
    \/ \E f \in Flows, o \in Outcomes : CallReturns(f, o)
    \/ \E f \in Flows : ChunkDelayDone(f)
    \/ \E f \in Flows : RetryDelayDone(f)
    \/ \E f \in Flows : AnalysisDone(f)

\* The next unused handleFileSelection call.
FreshSelection(c) ==
    /\ selPc[c] = "idle"
    /\ \A d \in Selections : d < c => selPc[d] # "idle"

\* Lines 32-62, 64-76: a file is chosen in the dialog or dropped on the
\* input section (the drop zone is there whatever is shown inside it).
\* handleFileSelection clears the results, sets the file and no parts; a
\* file over MAX_FILE_SIZE then awaits splitAudio, any other file becomes
\* its own single part.  The file of call c is named c.
SelectFile(c, file) ==
    /\ FreshSelection(c)
    /\ selFile' = [selFile EXCEPT ![c] = file]
    /\ transcription' = <<>>
    /\ selectedFile' = c
    /\ IF NeedsSplit(file)
       THEN /\ fileParts' = <<>>
            /\ isSplitting' = TRUE
            /\ processingStatus' = "splitting"
            /\ selPc' = [selPc EXCEPT ![c] = "splitting"]
       ELSE /\ fileParts' = PartsOf(c, 1)
            /\ isSplitting' = isSplitting
            /\ processingStatus' = ""
            /\ selPc' = [selPc EXCEPT ![c] = "done"]
    /\ UNCHANGED <<isProcessing, autoAnalyze, fPc, fParts, fI, fAttempt,
                   fFull, inFlight, dLog>>
    /\ UNCHANGED <<codecVars, splitVars, pcmVars, liveVars>>

\* Lines 46-50: splitAudio resolved; its chunks become the parts.
SplitDone(c) ==
    /\ selPc[c] = "splitting"
    /\ ~splitAudio(selFile[c]).threw
    /\ fileParts' = PartsOf(c, Len(splitAudio(selFile[c]).chunks))
    /\ processingStatus' = "ready"
    /\ isSplitting' = FALSE
    /\ selPc' = [selPc EXCEPT ![c] = "done"]
    /\ UNCHANGED <<isProcessing, transcription, selectedFile, autoAnalyze,
                   fPc, fParts, fI, fAttempt, fFull, inFlight, dLog, selFile>>
    /\ UNCHANGED <<codecVars, splitVars, pcmVars, liveVars>>

\* Lines 51-57: splitAudio rejected (the file does not decode, or the
\* rendering cannot be made); the catch of handleFileSelection runs.
SplitFailed(c) ==
    /\ selPc[c] = "splitting"
    /\ isSplitting' = FALSE
    /\ processingStatus' = ""
    /\ selectedFile' = 0
    /\ selPc' = [selPc EXCEPT ![c] = "failed"]
    /\ UNCHANGED <<isProcessing, transcription, fileParts, autoAnalyze,
                   fPc, fParts, fI, fAttempt, fFull, inFlight, dLog, selFile>>
    /\ UNCHANGED <<codecVars, splitVars, pcmVars, liveVars>>

\* Line 283: the clear button of the file card, shown while a file is
\* selected and no split is running.
ClearFile ==
    /\ ~isSplitting
    /\ selectedFile # 0
    /\ selectedFile' = 0
    /\ fileParts' = <<>>
    /\ transcription' = <<>>
    /\ UNCHANGED <<isProcessing, isSplitting, processingStatus, autoAnalyze,
                   fPc, fParts, fI, fAttempt, fFull, inFlight, dLog, selVars>>
    /\ UNCHANGED <<codecVars, splitVars, pcmVars, liveVars>>

\* The file input with its drop zone, the file card and the dispatch
\* flows, with remote calls that return a text or an empty text or fail
\* for good.
SelectNext ==
    \/ \E c \in Selections, file \in Files : SelectFile(c, file)
    \/ \E c \in Selections : SplitDone(c)
    \/ \E c \in Selections : SplitFailed(c)
    \/ ClearFile
    \/ \E f \in Flows : ProcessFile(f)
    \/ \E f \in Flows : ReadDone(f)
    \/ \E f \in Flows : ReadFailed(f)
    \/ \E f \in Flows, o \in {"text", "empty", "fatal"} : CallReturns(f, o)
    \/ \E f \in Flows : ChunkDelayDone(f)
    \/ \E f \in Flows : AnalysisDone(f)

-----------------------------------------------------------------------------
(* Specifications.                                                         *)

InitCodec == CodecInit /\ SplitIdle /\ PcmIdle /\ LiveIdle /\ DispIdle

SpecCodec == InitCodec /\ [][CodecNext]_vars

InitSplit == SplitInit /\ CodecIdle /\ PcmIdle /\ LiveIdle /\ DispIdle

SpecSplit == InitSplit /\ [][SplitNext]_vars

InitPcm == PcmInit /\ CodecIdle /\ SplitIdle /\ LiveIdle /\ DispIdle

SpecPcm == InitPcm /\ [][PcmNext]_vars

InitLive == LiveInit /\ CodecIdle /\ SplitIdle /\ PcmIdle /\ DispIdle

SpecLive == InitLive /\ [][LiveNext]_vars

InitPlay == PlayInit /\ CodecIdle /\ SplitIdle /\ PcmIdle /\ DispIdle

SpecPlay == InitPlay /\ [][PlayNext]_vars

\* onmessage calls and clock ticks of the session that is stopped.
MaxStopMessages == 2
MaxStopClock == 2

\* A streaming session with its playback scheduler and every caller of
\* stopSession: the End Session button, onclose, onerror and the unmount.
StopNext ==
    \/ \E s \in Sessions, k \in MessageKinds :
           Len(msgs) < MaxStopMessages /\ OnMessage(s, k)
    \/ Resume
    \/ \E s \in Sessions : currentTime[s] < MaxStopClock /\ Tick(s)
    \/ \E m \in 1..MaxMessages : OnEnded(m)
    \/ \E k \in Stops : UserStop(k)
    \/ \E s \in Sessions, k \in Stops : OnClose(s, k)
    \/ \E s \in Sessions, k \in Stops : OnError(s, k)
    \/ \E k \in Stops : Unmount(k)
    \/ \E k \in Stops : StopAfterInput(k)
    \/ \E k \in Stops : StopAfterOutput(k)

InitStop == PlayInit /\ CodecIdle /\ SplitIdle /\ PcmIdle /\ DispIdle

SpecStop == InitStop /\ [][StopNext]_vars

InitDisp == DispInit /\ CodecIdle /\ SplitIdle /\ PcmIdle /\ LiveIdle

SpecDisp == InitDisp /\ [][DispNext]_vars

\* A step of a started flow: an await of it settles.
FlowStep ==
    \/ \E f \in Flows : ReadDone(f) \/ ReadFailed(f)
    \/ \E f \in Flows, o \in Outcomes : CallReturns(f, o)
    \/ \E f \in Flows : ChunkDelayDone(f)
    \/ \E f \in Flows : RetryDelayDone(f)
    \/ \E f \in Flows : AnalysisDone(f)

\* Every await of a started flow settles: blobToBase64 resolves or rejects,
\* each generateContent call returns, the timers of the waits fire and
\* runAnalysis returns.  A flow awaits one thing at a time and one flow
\* runs at a time, so this is weak fairness of the flows' steps.
DispFairness == WF_vars(FlowStep)

\* handleTranscriptionFlow calls followed to their end.
MaxFairFlows == 1

\* The dispatcher with MaxFairFlows presses of Start.
FairNext ==
    \/ \E f \in Flows : f <= MaxFairFlows /\ ProcessFile(f)
    \/ \E f \in Flows : ReadDone(f)
    \/ \E f \in Flows : ReadFailed(f)
    \/ \E f \in Flows, o \in Outcomes : CallReturns(f, o)
    \/ \E f \in Flows : ChunkDelayDone(f)
    \/ \E f \in Flows : RetryDelayDone(f)
    \/ \E f \in Flows : AnalysisDone(f)

SpecDispFair == InitDisp /\ [][FairNext]_vars /\ DispFairness

InitSelect == DispIdle /\ CodecIdle /\ SplitIdle /\ PcmIdle /\ LiveIdle

SpecSelect == InitSelect /\ [][SelectNext]_vars

-----------------------------------------------------------------------------
(* Claims.                                                                 *)

\* C1: for every byte sequence b, decodeAudio(encodeAudio(b)) = b: the decode
\* does not throw and returns exactly the bytes that were encoded.
C1_RoundTrip ==
    cPc = "decoded" => (~decoded.threw /\ decoded.bytes = bytes)

\* C1 witness: the sequence of all 256 byte values (a padded final group)
\* has been encoded and decoded.
C1_Witness ==
    cPc = "decoded" /\ bytes = AllBytes /\ Len(encoded) = 344

\* The bound of one chunk in samples, as the specification states it.
ChunkBound == CHUNK_DURATION_SEC * TARGET_SAMPLE_RATE

ChunkSize(c) == c.end - c.start

\* C2: the chunks emitted by the slicing loop, in part-index order, are
\* contiguous and non-overlapping: part i carries index i, the first starts at
\* sample 0, each next one starts where the previous ended, the emitted ones
\* reach exactly to the cursor, and on return the last ends at the buffer's
\* last sample.
C2_ChunksCoverBuffer ==
    sPc \in {"loop", "done"} =>
        /\ \A i \in 1..Len(chunks) :
            /\ chunks[i].index = i
            /\ chunks[i].start = (IF i = 1 THEN 0 ELSE chunks[i - 1].end)
            /\ chunks[i].start <= chunks[i].end
        /\ (sPc = "loop" /\ partIndex = Len(chunks) + 1) =>
               startSample = (IF chunks = <<>> THEN 0 ELSE chunks[Len(chunks)].end)
        /\ sPc = "done" =>
               (chunks # <<>> /\ chunks[Len(chunks)].end = pcmLen)

\* C2 witness: the loop has returned three parts that end at the last sample.
C2_Witness ==
    /\ sPc = "done"
    /\ Len(chunks) = 3
    /\ partIndex = 4
    /\ chunks[3].end = pcmLen

\* C3: every emitted chunk but the last holds exactly CHUNK_DURATION_SEC *
\* TARGET_SAMPLE_RATE samples; the last holds between 1 and that many.
C3_ChunkSizes ==
    sPc \in {"loop", "done"} =>
        \A i \in 1..Len(chunks) :
            /\ ChunkSize(chunks[i]) >= 1
            /\ ChunkSize(chunks[i]) <= ChunkBound
            /\ i < Len(chunks) => ChunkSize(chunks[i]) = ChunkBound

\* C3 witness: the loop returned full chunks followed by a shorter last one.
C3_Witness ==
    /\ sPc = "done"
    /\ Len(chunks) >= 2
    /\ ChunkSize(chunks[1]) = ChunkBound
    /\ ChunkSize(chunks[Len(chunks)]) < ChunkBound

\* C4: for a rendered buffer of N samples longer than one chunk, splitAudio
\* returns exactly ceil(N / samplesPerChunk) files; for the 620-second buffer
\* these are 3 files of 300, 300 and 20 seconds.
C4_ChunkCount ==
    sPc = "done" =>
        /\ pcmLen > ChunkBound =>
               Len(chunks) = (pcmLen + ChunkBound - 1) \div ChunkBound
        /\ pcmLen = 620 * TARGET_SAMPLE_RATE =>
               /\ Len(chunks) = 3
               /\ ChunkSize(chunks[1]) = 300 * TARGET_SAMPLE_RATE
               /\ ChunkSize(chunks[2]) = 300 * TARGET_SAMPLE_RATE
               /\ ChunkSize(chunks[3]) = 20 * TARGET_SAMPLE_RATE

\* C4 witness: the 620-second buffer has been split.
C4_Witness ==
    sPc = "done" /\ pcmLen = 620 * TARGET_SAMPLE_RATE /\ Len(chunks) = 3

\* C5: when splitAudio returns for an input of at most 300 s it returns
\* exactly one file, and it returns two or more files only for an input
\* longer than 300 s.
C5_ShortInputOneFile ==
    sPc = "done" =>
        /\ DurationLE(srcLen, srcRate, 300) => Len(chunks) = 1
        /\ Len(chunks) >= 2 => ~DurationLE(srcLen, srcRate, 300)

\* C5 witness: an input of exactly 300 s came back as one file.
C5_Witness ==
    sPc = "done" /\ srcLen = 300 * srcRate /\ Len(chunks) = 1

\* v as w bytes, least significant first.
LittleEndian(v, w) == [k \in 1..w |-> (v \div Pow256(k - 1)) % 256]

\* The 44-byte header of a mono 16-bit file of n samples at rate r: "RIFF",
\* 36 + 2n, "WAVE", "fmt ", 16, 1, 1, r, 2r, 2, 16, "data", 2n.
ExpectedHeader(n, r) ==
    <<82, 73, 70, 70>> \o LittleEndian(36 + 2 * n, 4)
        \o <<87, 65, 86, 69>> \o <<102, 109, 116, 32>>
        \o LittleEndian(16, 4) \o LittleEndian(1, 2) \o LittleEndian(1, 2)
        \o LittleEndian(r, 4) \o LittleEndian(2 * r, 4)
        \o LittleEndian(2, 2) \o LittleEndian(16, 2)
        \o <<100, 97, 116, 97>> \o LittleEndian(2 * n, 4)

\* C6: for a mono buffer of N samples at rate R the file is 44 + 2N bytes
\* long, that is the header and N 16-bit sample slots, and its first 44 bytes
\* are the header fields 'RIFF', 36 + 2N, 'WAVE', 'fmt ', 16, 1, 1, R, 2R, 2,
\* 16, 'data', 2N, little-endian.
C6_WavHeader ==
    wPc = "done" =>
        /\ Len(wavOut) = 44 + 2 * Len(samples)
        /\ SubSeq(wavOut, 1, 44) = ExpectedHeader(Len(samples), TARGET_SAMPLE_RATE)

\* C6 witness: a buffer of 46 samples has been written as a file of 136 bytes.
C6_Witness ==
    wPc = "done" /\ Len(samples) = 46 /\ Len(wavOut) = 136

\* The i-th (1-based) 16-bit sample stored after the header, as signed.
StoredSample(w, i) ==
    ToInt16(w[44 + 2 * i - 1] + 256 * w[44 + 2 * i])

\* The quantization rule as the specification states it: clamp to [-1, 1],
\* x 32767 when non-negative, x 32768 when negative, truncate toward zero.
StatedQuantize(n) ==
    LET c == Clamp(n)
    IN  IF c >= 0 THEN TruncDiv(c * 32767, SampleResolution)
        ELSE TruncDiv(c * 32768, SampleResolution)

\* C7: audioBufferToWav stores, for every sample of the buffer, the value of
\* the stated rule (clamp; x 32767 if non-negative, x 32768 if negative;
\* truncate), and the stored value lies in [-32768, 32767].
C7_EverySampleQuantized ==
    wPc = "done" =>
        \A i \in 1..Len(samples) :
            /\ StoredSample(wavOut, i) = StatedQuantize(samples[i])
            /\ StoredSample(wavOut, i) \in -32768..32767

\* What audioBufferToWav does store: slot i holds sample i + 44 quantized
\* with the test sample < -0.5, and the last 44 slots (all of them for a
\* buffer of at most 44 samples) stay 0.
WavStoresShifted ==
    wPc = "done" =>
        \A i \in 1..Len(samples) :
            StoredSample(wavOut, i) =
                IF i + WavHeaderBytes <= Len(samples)
                THEN WavQuantize(samples[i + WavHeaderBytes])
                ELSE 0

\* The 16-bit values a packet carries, read back from its base64 data.
PacketSamples(blob) ==
    LET b == decodeAudio(blob.data).bytes
    IN  [i \in 1..(Len(b) \div 2) |-> ToInt16(b[2 * i - 1] + 256 * b[2 * i])]

\* C8: the 16-bit values createPcmBlob puts in the packet are, sample for
\* sample, the values of the WAV encoder's rule (clamp to [-1, 1]; x 32767 if
\* non-negative, x 32768 if negative; truncate), so no value wraps around.
C8_PacketMatchesWavRule ==
    bPc = "done" =>
        /\ Len(PacketSamples(pcmBlob)) = Len(samples)
        /\ \A i \in 1..Len(samples) :
            /\ PacketSamples(pcmBlob)[i] = WavQuantize(samples[i])
            /\ PacketSamples(pcmBlob)[i] = StatedQuantize(samples[i])

\* What createPcmBlob does carry: sample * 32768 truncated and wrapped to 16
\* bits, one value per sample, under the fixed mime type.
PcmBlobCarries ==
    bPc = "done" =>
        /\ pcmBlob.mimeType = "audio/pcm;rate=16000"
        /\ PacketSamples(pcmBlob) =
               [i \in 1..Len(samples) |->
                   ToInt16(TruncDiv(samples[i] * 32768, SampleResolution))]

\* How many sendRealtimeInput calls carried frame f.
SendCount(f) == Cardinality({i \in 1..Len(sendLog) : sendLog[i].frame = f})

\* How many then-callbacks still waiting on a promise carry frame f.
WaitCount(f) ==
    Cardinality({<<s, i>> \in Sessions \X (1..MaxFrames) :
                    i <= Len(reactions[s]) /\ reactions[s][i] = f})

\* The calls made on one session carry frames in the order of their capture.
SentInCaptureOrder ==
    \A i, j \in 1..Len(sendLog) :
        (i < j /\ sendLog[i].session = sendLog[j].session) =>
            sendLog[i].frame < sendLog[j].frame

\* C9: every frame captured while the session streams results in exactly one
\* sendRealtimeInput call carrying it (made already, or held by exactly one
\* callback waiting for the session), and the calls on a session are made in
\* capture order: no frame is dropped, duplicated or reordered.
C9_EveryFrameSentOnce ==
    /\ \A i \in 1..Len(capLog) :
           capLog[i].streaming =>
               SendCount(capLog[i].frame) + WaitCount(capLog[i].frame) = 1
    /\ SentInCaptureOrder

\* C10: a frame captured while its session's connect promise is pending is
\* held by a waiting callback until the promise resolves and is then sent;
\* the held frames are sent in capture order, before any frame captured
\* later; none is discarded.
C10_PendingFramesHeldThenSent ==
    /\ \A i \in 1..Len(capLog) :
           capLog[i].pending =>
               /\ SendCount(capLog[i].frame) + WaitCount(capLog[i].frame) = 1
               /\ promise[capLog[i].proc] = "resolved" =>
                      SendCount(capLog[i].frame) = 1
    /\ SentInCaptureOrder

\* What the handler does guarantee: a frame handled while
\* sessionPromiseRef.current held a promise that was pending or resolved is
\* waiting on that promise or was sent on its session, exactly once, unless
\* that promise has since rejected; and the calls are in capture order.
FramesSentWhileRefHeld ==
    /\ \A i \in 1..Len(capLog) :
           LET q == capLog[i].ref
           IN  (q # 0 /\ promise[q] # "rejected") =>
                   /\ SendCount(capLog[i].frame) + WaitCount(capLog[i].frame) = 1
                   /\ promise[q] = "resolved" => SendCount(capLog[i].frame) = 1
    /\ SentInCaptureOrder

\* A frame handled while sessionPromiseRef.current was null is sent by no
\* call and held by no callback.
FramesLostWhileRefNull ==
    \A i \in 1..Len(capLog) :
        capLog[i].ref = 0 =>
            SendCount(capLog[i].frame) + WaitCount(capLog[i].frame) = 0

-----------------------------------------------------------------------------
(* Playback scheduler, C11-C15.                                            *)

\* The messages whose source.start call has been made.
Started == {i \in 1..Len(msgs) : msgs[i].src # "none"}

\* No interrupted message has arrived.
NoInterruption == \A i \in 1..Len(msgs) : ~msgs[i].interrupted

\* C11: for playback items arriving in order with no interruption, each
\* later item starts no earlier than the end of each earlier one
\* (start(i+1) >= start(i) + duration(i), no overlap), and every item starts
\* at or after the output clock's time at its arrival.
C11_NoOverlapNoPast ==
    NoInterruption =>
        /\ \A i, j \in Started :
               i < j => msgs[j].startAt >= msgs[i].startAt + msgs[i].duration
        /\ \A i \in Started : msgs[i].startAt >= msgs[i].now0

\* Three items started with no interruption: the second arrived while the
\* first was scheduled and starts at its end, the third arrived after the
\* cursor had run out and starts at the clock.
C11_Witness ==
    /\ NoInterruption
    /\ Started = {1, 2, 3}
    /\ msgs[2].startAt = msgs[1].startAt + msgs[1].duration
    /\ msgs[2].startAt > msgs[2].now0
    /\ msgs[3].startAt = msgs[3].now0
    /\ msgs[3].startAt > msgs[2].startAt + msgs[2].duration

\* The scheduled end of the item started just before item i, which is what
\* the cursor stands for when i is scheduled: 0 when i is the first item
\* started, or when an interruption was handled since that start.
PreviousEnd(i) ==
    LET before == {j \in Started : msgs[j].startOrd = msgs[i].startOrd - 1}
    IN  IF before = {} THEN 0
        ELSE LET j == CHOOSE j \in before : TRUE
             IN  IF msgs[j].intrSeen # msgs[i].intrSeen THEN 0
                 ELSE msgs[j].cursorAfter

\* C12: every item is started at max(nextStartTime, now), now being the
\* output clock at some moment of the message's handling (between its
\* arrival and its source.start call), and the cursor is then set to the
\* start time plus the item's duration; so an item that comes before the
\* previous item's scheduled end starts at that end, a later one at the
\* clock.
C12_StartAtMaxOfCursorAndNow ==
    \A i \in Started :
        /\ msgs[i].startAt >= Max(PreviousEnd(i), msgs[i].now0)
        /\ msgs[i].startAt <= Max(PreviousEnd(i), msgs[i].startClock)
        /\ msgs[i].cursorAfter = msgs[i].startAt + msgs[i].duration

\* The interrupted messages handled with an output context, up to message i.
InterruptedUpTo(i) ==
    {k \in 1..Min(i, Len(msgs)) : msgs[k].interrupted /\ msgs[k].ctx # 0}

\* No interrupted message was handled between the arrival of message i and
\* its source.start call.
Undisturbed(i) == msgs[i].intrSeen = Cardinality(InterruptedUpTo(i))

\* The rule of C12 holds for every item whose handler was not overtaken by
\* an interruption while it waited for its decode.
StartAtMaxWhenUndisturbed ==
    \A i \in Started :
        Undisturbed(i) =>
            /\ msgs[i].startAt >= Max(PreviousEnd(i), msgs[i].now0)
            /\ msgs[i].startAt <= Max(PreviousEnd(i), msgs[i].startClock)

\* The first message from k on that carries a decodable audio segment.
NextItemFrom(k) ==
    {j \in k..Len(msgs) :
        /\ msgs[j].audio = "ok"
        /\ \A h \in k..(j - 1) : msgs[h].audio # "ok"}

\* C13: once an interrupted message has been handled, every source that
\* was in the active set has been stopped, the set is empty and the cursor
\* is 0; and the next item to arrive is started at the output clock's time
\* (its reading at some moment between the item's arrival and its start),
\* not at a cursor left from before.
C13_InterruptionResets ==
    \A k \in InterruptedUpTo(Len(msgs)) :
        /\ \A m \in msgs[k].preSources : msgs[m].src \in {"stopped", "ended"}
        /\ msgs[k].intrSources = {}
        /\ msgs[k].intrCursor = 0
        /\ \A j \in NextItemFrom(k) \cap Started :
               /\ msgs[j].startAt >= msgs[j].now0
               /\ msgs[j].startAt <= msgs[j].startClock

\* The first half of C13 on its own: the state the interruption block leaves.
InterruptionEmptiesSet ==
    \A k \in InterruptedUpTo(Len(msgs)) :
        /\ \A m \in msgs[k].preSources : msgs[m].src \in {"stopped", "ended"}
        /\ msgs[k].intrSources = {}
        /\ msgs[k].intrCursor = 0

\* The second half of C13 where no handler was suspended at its decode when
\* the interruption arrived.
NextItemAtClockWhenNoneInFlight ==
    \A k \in InterruptedUpTo(Len(msgs)) :
        msgs[k].inFlight = 0 =>
            \A j \in NextItemFrom(k) \cap Started :
                Undisturbed(j) =>
                    /\ msgs[j].startAt >= msgs[j].now0
                    /\ msgs[j].startAt <= msgs[j].startClock

\* C14: handling an interruption is idempotent and always succeeds: the
\* interruption block applied twice leaves the scheduler state it leaves
\* when applied once, and every interrupted message handled, also one that
\* found the active set empty or holding sources that had played through,
\* ran its handler on (no error) and left the set empty and the cursor at 0.
C14_InterruptionIdempotent ==
    /\ Interrupt(Interrupt(SchedulerState)) = Interrupt(SchedulerState)
    /\ Interrupt(SchedulerState).sourcesRef = {}
    /\ Interrupt(SchedulerState).nextStartTimeRef = 0
    /\ \A k \in InterruptedUpTo(Len(msgs)) :
           /\ msgs[k].pc \in {"done", "await", "caught"}
           /\ msgs[k].intrSources = {}
           /\ msgs[k].intrCursor = 0

\* Two interrupted messages in a row: the first found a source in the
\* active set and a cursor past 0, the second found the set empty and the
\* cursor at 0.
C14_Witness ==
    \E k \in 1..(Len(msgs) - 1) :
        /\ msgs[k].interrupted /\ msgs[k].audio = "none" /\ msgs[k].ctx # 0
        /\ msgs[k].preSources # {}
        /\ msgs[k].preCursor > 0
        /\ msgs[k + 1].interrupted /\ msgs[k + 1].ctx # 0
        /\ msgs[k + 1].preSources = {}
        /\ msgs[k + 1].preCursor = 0
        /\ sourcesRef = {}
        /\ nextStartTimeRef = 0

\* C15 as stated: for any two audio messages A before B, A's source.start
\* is called before B's and A's start time is <= B's.
C15_StartedInArrivalOrder ==
    \A a, b \in Started :
        a < b =>
            /\ msgs[a].startOrd < msgs[b].startOrd
            /\ msgs[a].startAt <= msgs[b].startAt

\* C15, amended: for any two audio messages A before B, A's source.start is
\* called before B's, also when both handlers were suspended at the decode
\* at once; and A's start time is <= B's when no interruption was handled
\* between the two start calls.
C15_StartedInArrivalOrderAmended ==
    \A a, b \in Started :
        a < b =>
            /\ msgs[a].startOrd < msgs[b].startOrd
            /\ msgs[a].intrSeen = msgs[b].intrSeen =>
                   msgs[a].startAt <= msgs[b].startAt

\* Three handlers suspended at the decode at once, all since started.
C15_Witness ==
    /\ Started = {1, 2, 3}
    /\ msgs[2].inFlight = 1
    /\ msgs[3].inFlight = 2
    /\ msgs[1].intrSeen = msgs[3].intrSeen

-----------------------------------------------------------------------------
(* Transcription dispatcher, C16-C20.                                      *)

\* The log entries of flow f, and those of its part p.
FlowLog(f) == SelectSeq(dLog, LAMBDA e : e.flow = f)
PartLog(f, p) == SelectSeq(dLog, LAMBDA e : e.flow = f /\ e.part = p)

\* The flows in progress.
ActiveFlows == {f \in Flows : fPc[f] \notin {"idle", "done", "aborted"}}

\* The calls made for part p of flow f.
Attempts(f, p) ==
    Cardinality({n \in 1..Len(dLog) :
        dLog[n].flow = f /\ dLog[n].part = p /\ dLog[n].type = "call"})

\* C16: at most one remote transcription call is in flight at any time and
\* at most one dispatch flow is in progress; within a flow every call is
\* made after the previous call returned, the parts are called in index
\* order, and the first attempt for part p + 1 comes only after the call
\* sequence of part p has ended with a result.
C16_OneCallAtATime ==
    /\ Cardinality(inFlight) <= 1
    /\ Cardinality(ActiveFlows) <= 1
    /\ \A f \in Flows :
           LET log == FlowLog(f)
           IN  \A b \in 1..Len(log) :
                   log[b].type = "call" =>
                       /\ \A a \in 1..(b - 1) : log[a].part <= log[b].part
                       /\ \A a \in 1..(b - 1) :
                              log[a].type = "call" =>
                                  \E c \in (a + 1)..(b - 1) :
                                      log[c].type = "return"
                       /\ (log[b].attempt = 0 /\ log[b].part > 1) =>
                              \E a \in 1..(b - 1) :
                                  /\ log[a].type = "return"
                                  /\ log[a].part = log[b].part - 1
                                  /\ log[a].outcome \in {"text", "empty"}

\* The second flow, started after the first one finished, has a call in
\* flight for its second part, after a retry on the first.
C16_Witness ==
    /\ fPc[1] \in {"done", "aborted"}
    /\ fPc[2] = "call"
    /\ fI[2] = 1
    /\ Attempts(2, 1) = 2
    /\ Attempts(1, 1) >= 1
    /\ Cardinality(inFlight) = 1

\* C17: the first attempt of every part after the first comes right after
\* a wait of CHUNK_DELAY_MS, which follows the result of the part before,
\* a text or an empty one; the first part's first attempt is the first
\* thing its flow does, with no wait before it.
C17_DelayBeforeLaterChunks ==
    \A f \in Flows :
        LET log == FlowLog(f)
        IN  \A b \in 1..Len(log) :
                (log[b].type = "call" /\ log[b].attempt = 0) =>
                    IF log[b].part = 1
                    THEN b = 1
                    ELSE /\ b > 2
                         /\ log[b - 1].type = "delay"
                         /\ log[b - 1].ms = CHUNK_DELAY_MS
                         /\ log[b - 1].part = log[b].part
                         /\ log[b - 2].type = "return"
                         /\ log[b - 2].part = log[b].part - 1
                         /\ log[b - 2].outcome \in {"text", "empty"}

\* A flow of three parts: the second called after an empty result of the
\* first, the third after a text of the second.
C17_Witness ==
    \E f \in Flows :
        LET log == FlowLog(f)
        IN  /\ Len(log) >= 7
            /\ log[2].type = "return" /\ log[2].outcome = "empty"
            /\ log[3].type = "delay"
            /\ log[4].type = "call" /\ log[4].part = 2
            /\ log[5].type = "return" /\ log[5].outcome = "text"
            /\ log[6].type = "delay"
            /\ log[7].type = "call" /\ log[7].part = 3

\* What is logged of a part whose call fails k times with a transient
\* error and then ends with the result last: its attempts and the waits
\* between them.
RECURSIVE RetrySequence(_, _, _)
RetrySequence(n, k, last) ==
    IF n = k
    THEN <<[type |-> "call", attempt |-> n, ms |-> 0, outcome |-> ""],
           [type |-> "return", attempt |-> n, ms |-> 0, outcome |-> last]>>
    ELSE <<[type |-> "call", attempt |-> n, ms |-> 0, outcome |-> ""],
           [type |-> "return", attempt |-> n, ms |-> 0,
            outcome |-> "transient"],
           [type |-> "wait", attempt |-> n + 1,
            ms |-> (n + 1) * RETRY_DELAY_MS, outcome |-> ""]>>
         \o RetrySequence(n + 1, k, last)

\* The calls, returns and retry waits logged for part p of flow f.
AttemptLog(f, p) ==
    LET log == SelectSeq(PartLog(f, p), LAMBDA e : e.type # "delay")
    IN  [n \in 1..Len(log) |->
            [type |-> log[n].type, attempt |-> log[n].attempt,
             ms |-> log[n].ms, outcome |-> log[n].outcome]]

\* The transient failures logged for part p of flow f.
TransientFailures(f, p) ==
    Cardinality({n \in 1..Len(dLog) :
        /\ dLog[n].flow = f /\ dLog[n].part = p
        /\ dLog[n].type = "return" /\ dLog[n].outcome = "transient"})

\* The parts of flow f whose call sequence ended with a text or an empty text.
Succeeded(f) ==
    {p \in 1..Len(fParts[f]) :
        \E n \in 1..Len(dLog) :
            /\ dLog[n].flow = f /\ dLog[n].part = p
            /\ dLog[n].type = "return"
            /\ dLog[n].outcome \in {"text", "empty"}}

\* C18: a part whose call fails with a transient error k times (k <= 2)
\* and then succeeds is attempted exactly k + 1 times, with the waits
\* 1 x RETRY_DELAY_MS, then 2 x RETRY_DELAY_MS, before the retries, and its
\* text is taken into the transcript.
C18_RetryThenSucceed ==
    \A f \in Flows :
        \A p \in Succeeded(f) :
            LET k    == TransientFailures(f, p)
                log  == AttemptLog(f, p)
                last == log[Len(log)].outcome
            IN  /\ k <= 2
                /\ Attempts(f, p) = k + 1
                /\ log = RetrySequence(0, k, last)
                /\ last = "text" =>
                       \E n \in 1..Len(fFull[f]) : fFull[f][n] = fParts[f][p]

\* A part succeeded with a text at its third attempt.
C18_Witness ==
    \E f \in Flows :
        \E p \in Succeeded(f) :
            /\ TransientFailures(f, p) = 2
            /\ Attempts(f, p) = 3
            /\ AttemptLog(f, p) = RetrySequence(0, 2, "text")
            /\ AttemptLog(f, p)[3].ms = RETRY_DELAY_MS
            /\ AttemptLog(f, p)[6].ms = 2 * RETRY_DELAY_MS

\* C19: no part is attempted more than 3 times; a transient failure of the
\* third attempt is the last thing the flow logs (no wait, no retry, no
\* call for a later part) and the flow is aborted.
C19_AtMostThreeAttempts ==
    \A f \in Flows :
        LET log == FlowLog(f)
        IN  /\ \A p \in 1..MaxParts : Attempts(f, p) <= maxRetries
            /\ \A n \in 1..Len(log) :
                   (/\ log[n].type = "return"
                    /\ log[n].outcome = "transient"
                    /\ log[n].attempt = maxRetries - 1) =>
                       /\ n = Len(log)
                       /\ fPc[f] = "aborted"

\* The first of three parts failed three times with a transient error and
\* the flow is aborted.
C19_Witness ==
    \E f \in Flows :
        /\ fPc[f] = "aborted"
        /\ Len(fParts[f]) = 3
        /\ fI[f] = 0
        /\ Attempts(f, 1) = 3
        /\ TransientFailures(f, 1) = 3

\* C20: a non-transient failure is never retried: it is the last thing the
\* flow logs (no wait, no further attempt, no call for a later part), the
\* flow is aborted, and when it came at the first attempt the part has
\* exactly 1 attempt.
C20_FatalNeverRetried ==
    \A f \in Flows :
        LET log == FlowLog(f)
        IN  \A n \in 1..Len(log) :
                (log[n].type = "return" /\ log[n].outcome = "fatal") =>
                    /\ n = Len(log)
                    /\ fPc[f] = "aborted"
                    /\ log[n].attempt = 0 => Attempts(f, log[n].part) = 1
                    /\ Attempts(f, log[n].part) = log[n].attempt + 1

\* The second of three parts failed with a non-transient error at its
\* first attempt, after the first part gave a text.
C20_Witness ==
    \E f \in Flows :
        /\ fPc[f] = "aborted"
        /\ Len(fParts[f]) = 3
        /\ fI[f] = 1
        /\ Attempts(f, 2) = 1
        /\ Attempts(f, 3) = 0
        /\ FlowLog(f)[Len(FlowLog(f))].outcome = "fatal"
        /\ Len(fFull[f]) = 1

-----------------------------------------------------------------------------
(* Transcription dispatcher, C21.                                          *)

\* The parts of flow f before part k whose call sequence ended with a text,
\* in index order.
TextsBefore(f, k) ==
    SelectSeq(SubSeq(fParts[f], 1, k - 1),
              LAMBDA x : \E n \in 1..Len(dLog) :
                  /\ dLog[n].flow = f /\ dLog[n].part = x.part
                  /\ dLog[n].type = "return" /\ dLog[n].outcome = "text")

\* Flow f aborted and no flow was started since.
LastAborted(f) ==
    /\ fPc[f] = "aborted"
    /\ \A g \in Flows : g > f => fPc[g] = "idle"

\* C21: when part k aborts the sequence, the transcription shown ends with
\* the abort reason, and right before it stand the texts of all parts before
\* k that succeeded with a text, in part order: none lost or overwritten.
C21_AbortKeepsEarlierTexts ==
    \A f \in Flows :
        LastAborted(f) =>
            LET k     == fI[f] + 1
                texts == TextsBefore(f, k)
                n     == Len(transcription)
            IN  /\ n >= Len(texts) + 1
                /\ transcription[n] = ErrorText(f)
                /\ SubSeq(transcription, n - Len(texts), n - 1) = texts
                /\ fFull[f] = texts

\* The third part aborted the sequence after the first two gave texts.
C21_Witness ==
    \E f \in Flows :
        /\ LastAborted(f)
        /\ fI[f] = 2
        /\ TextsBefore(f, 3) = SubSeq(fParts[f], 1, 2)
        /\ transcription = SubSeq(fParts[f], 1, 2) \o <<ErrorText(f)>>

\* The rendering has been made: compressAudio's inside splitAudio's short
\* path, or splitAudio's own.
Rendered == sPc \in {"loop", "done"}

\* n * R - L * 16000 for a rendering of n frames, computed from the quotient
\* and the remainder of L * 16000 by R so that no product leaves 32 bits.
DurationError(n, len, rate) ==
    (n - ExactFrames(len, rate)) * rate
        - (((len % rate) * TARGET_SAMPLE_RATE) % rate)

\* C27: the rendering of L frames at rate R has a length n with
\* |n / 16000 - L / R| < 1 / 16000, that is |n * R - L * 16000| < R, in
\* compressAudio and in splitAudio.
C27_DurationWithinOneSample ==
    Rendered =>
        LET e == DurationError(pcmLen, srcLen, srcRate)
        IN  -srcRate < e /\ e < srcRate

\* What the code does keep: the rendering is never longer than the input
\* and never shorter by more than one output sample.
DurationWithinOneSampleInclusive ==
    Rendered =>
        LET e == DurationError(pcmLen, srcLen, srcRate)
        IN  -srcRate <= e /\ e <= 0

\* stopSession call k, made on a streaming session, returns in this step.
StopCompletes(k) ==
    /\ stopPc[k] # "done"
    /\ stopPc'[k] = "done"
    /\ stopCall'[k].streaming

\* What stopSession leaves behind for the session it was called on.
Released(k) ==
    LET s == stopCall[k].session
    IN  /\ s \notin handler
        /\ scriptProcessorRef \notin handler
        /\ \A i \in 1..Len(msgs) : msgs[i].src # "playing"
        /\ sourcesRef = {}
        /\ s \in closedIn /\ s \in closedOut
        /\ inputAudioContextRef = 0 /\ outputAudioContextRef = 0
        /\ ws[s] \in {"closing", "broken", "closed"}
        /\ activeSessionRef = 0
        /\ nextStartTimeRef = 0

FullyReleased ==
    /\ \A s \in Sessions : ws[s] # "none" => s \in closedIn /\ s \in closedOut
    /\ inputAudioContextRef = 0 /\ outputAudioContextRef = 0
    /\ sourcesRef = {}
    /\ nextStartTimeRef = 0
    /\ activeSessionRef = 0

\* stopSession call k is suspended at one of its awaits.
Suspended(k) == stopPc[k] \in {"awaitInput", "awaitOutput"}

\* C23: however stopSession is called again (after a call returned, while
\* a call is suspended at an await, after a call failed) no call raises an
\* error, and a call that returns leaves the fully released state.
C23_StopIdempotent ==
    [][\A k \in Stops :
          /\ stopPc'[k] # "threw"
          /\ (stopPc[k] # "done" /\ stopPc'[k] = "done") => FullyReleased'
      ]_vars

\* What does hold: a call made while no other call is suspended raises no
\* error, and every call that returns leaves the fully released state.
StopSafeWhenNotOverlapping ==
    [][\A k \in Stops :
          /\ (stopPc[k] = "idle" /\ \A j \in Stops : ~Suspended(j))
                => stopPc'[k] # "threw"
          /\ (stopPc[k] # "done" /\ stopPc'[k] = "done") => FullyReleased'
      ]_vars

\* The audio I/O resources startSession acquired for the session call k
\* was made on are released: its microphone tracks are stopped and both
\* its contexts are closed.
AudioReleased(k) ==
    LET s == stopCall[k].session
    IN  /\ tracks[s] = "ended"
        /\ s \in closedIn /\ s \in closedOut

\* C24: on every exit path (End Session, onclose, onerror, unmount), once
\* the stopSession call made by that path on the live session has returned,
\* the microphone tracks are stopped and both contexts are closed.
C24_ReleasedOnEveryExitPath ==
    [][\A k \in Stops : StopCompletes(k) => AudioReleased(k)']_vars

\* What does hold: the End Session path releases them, and every path
\* closes both contexts.
ReleasedOnUserPath ==
    [][\A k \in Stops :
          StopCompletes(k) =>
              /\ stopCall'[k].session \in closedIn'
              /\ stopCall'[k].session \in closedOut'
              /\ stopCall'[k].by = "user" => AudioReleased(k)'
      ]_vars

\* startSession call s failed and no startSession was called since.
LastStartFailed(s) ==
    /\ startPc[s] = "failed"
    /\ \A r \in Sessions : r > s => startPc[r] = "idle"

\* C25: after startSession failed at any step, the media stream it obtained
\* has its tracks stopped, every context it created is closed and no ref
\* holds it, and status is 'disconnected'.
C25_FailedStartHoldsNothing ==
    \A s \in Sessions :
        LastStartFailed(s) =>
            /\ tracks[s] # "live"
            /\ ws[s] # "none" => s \in closedIn /\ s \in closedOut
            /\ inputAudioContextRef # s /\ outputAudioContextRef # s
            /\ status = "disconnected"

\* What does hold: the failure is reported and status is 'disconnected',
\* and a refused microphone leaves nothing behind.
FailedStartReported ==
    \A s \in Sessions :
        LastStartFailed(s) =>
            /\ status = "disconnected"
            /\ error = "start"
            /\ tracks[s] = "none" =>
                  inputAudioContextRef # s /\ outputAudioContextRef # s

\* C26: the connection error is shown only after the stopSession call made
\* by onerror has returned and released the session's resources.
C26_ErrorReportedAfterRelease ==
    error = "connection" =>
        \E k \in Stops :
            /\ stopCall[k].by = "onerror"
            /\ stopPc[k] = "done"
            /\ AudioReleased(k)

\* What does hold: when the connection error is shown, the stopSession call
\* of onerror has been made, the session is marked disconnected and its
\* frame capture is off.
ErrorReportedAfterStopBegan ==
    error = "connection" =>
        \E k \in Stops :
            /\ stopCall[k].by = "onerror"
            /\ stopPc[k] # "idle"
            /\ ~isConnected /\ status = "disconnected"
            /\ stopCall[k].session \notin handler

\* C28: in every interleaving of message handlers every item is started at
\* a time at or after the output clock's time (as its handler read it), also
\* when an interrupted message is handled while the handler is suspended at
\* its decode; and an item whose message came before an interrupted message
\* that has been handled is neither playing nor in the active set.
C28_NoStartInThePast ==
    /\ \A i \in Started : msgs[i].startAt >= msgs[i].now0
    /\ \A k \in InterruptedUpTo(Len(msgs)) :
           \A i \in 1..(k - 1) : msgs[i].src # "playing" /\ i \notin sourcesRef

\* What does hold: both for every item whose handler was not overtaken by
\* an interrupted message while it was suspended.
NoStartInThePastWhenUndisturbed ==
    /\ \A i \in Started : Undisturbed(i) => msgs[i].startAt >= msgs[i].now0
    /\ \A k \in InterruptedUpTo(Len(msgs)) :
           \A i \in Started :
               (i < k /\ Undisturbed(i)) =>
                   msgs[i].src # "playing" /\ i \notin sourcesRef

\* The items started that have neither ended (onended) nor been stopped.
Playing == {i \in 1..Len(msgs) : msgs[i].src = "playing"}

\* C29: the active set holds exactly the items that were started and have
\* neither finished nor been stopped: an item enters it when it is started
\* and leaves it on its onended, on an interruption and on stopSession.
C29_ActiveSetExact == sourcesRef = Playing

\* The first item has played through and left the set on its onended; the
\* second is playing and is the only one in the set.
C29_Witness ==
    /\ Len(msgs) = 2
    /\ msgs[1].src = "ended"
    /\ msgs[2].src = "playing"
    /\ sourcesRef = {2}

\* No handleServerMessage call is suspended at its decode.
NoHandlerInProgress == microQ = <<>>

\* C30: whenever no message handler is in progress, the cursor is at or
\* past start time + duration of every item in the active set, so the next
\* item scheduled cannot overlap an item still in the set.
C30_CursorPastActiveItems ==
    NoHandlerInProgress =>
        \A i \in sourcesRef :
            nextStartTimeRef >= msgs[i].startAt + msgs[i].duration

\* Two items in the active set, the cursor at the end of the second, and no
\* handler in progress.
C30_Witness ==
    /\ NoHandlerInProgress
    /\ Cardinality(sourcesRef) >= 2
    /\ \E i \in sourcesRef :
           nextStartTimeRef = msgs[i].startAt + msgs[i].duration
    /\ \E i \in sourcesRef :
           nextStartTimeRef > msgs[i].startAt + msgs[i].duration

\* A stopSession call has returned (and, in SpecStop, startSession was not
\* called since).
Stopped == \E k \in Stops : stopPc[k] = "done"

ArrivalsAfterStopIgnored ==
    [][(Stopped /\ Len(msgs') > Len(msgs)) =>
          /\ sourcesRef' = sourcesRef
          /\ nextStartTimeRef' = nextStartTimeRef
          /\ microQ' = microQ
          /\ StartsMade(msgs') = StartsMade(msgs)
      ]_vars

\* stopSession call k was made while the startSession of its session was
\* still connecting; both have finished and startSession was not called
\* again.
StoppedWhileConnecting(k) ==
    LET s == stopCall[k].session
    IN  /\ stopCall[k].connecting
        /\ stopPc[k] = "done"
        /\ startPc[s] \in {"done", "failed"}
        /\ \A r \in Sessions : r > s => startPc[r] = "idle"

\* C32: if stopSession runs while startSession is still connecting, then
\* after both have finished the session that was opened is closed and not
\* referenced, no capture is running, the microphone is released, status
\* is 'disconnected' and isConnected is false.
C32_StopWhileConnectingCloses ==
    \A k \in Stops :
        StoppedWhileConnecting(k) =>
            LET s == stopCall[k].session
            IN  /\ ws[s] \in {"closing", "closed"}
                /\ activeSessionRef = 0
                /\ s \notin handler
                /\ tracks[s] # "live"
                /\ status = "disconnected" /\ ~isConnected

\* What does hold: capture is off and the component shows 'disconnected'.
StopWhileConnectingStopsCapture ==
    \A k \in Stops :
        StoppedWhileConnecting(k) =>
            /\ stopCall[k].session \notin handler
            /\ status = "disconnected" /\ ~isConnected

\* The messages whose audio segment cannot be decoded, handled with an
\* output context.
FailedDecodes ==
    {i \in 1..Len(msgs) : msgs[i].audio = "odd" /\ msgs[i].ctx # 0}

\* C33: a message whose audio segment fails to decode starts no item, adds
\* none to the active set and advances the cursor by no duration; the error
\* is caught in the handler; and items of later messages are scheduled by
\* the usual rule.
C33_DecodeFailureContained ==
    /\ [](\A i \in FailedDecodes :
             /\ msgs[i].src = "none"
             /\ i \notin sourcesRef
             /\ msgs[i].pc \in {"await", "caught"}
             /\ \A j \in Started :
                    (j > i /\ Undisturbed(j)) =>
                        /\ msgs[j].startAt >=
                               Max(PreviousEnd(j), msgs[j].now0)
                        /\ msgs[j].startAt <=
                               Max(PreviousEnd(j), msgs[j].startClock))
    /\ [][\A i \in FailedDecodes :
             (msgs[i].pc = "await" /\ msgs'[i].pc # "await") =>
                 /\ msgs'[i].pc = "caught"
                 /\ nextStartTimeRef' = nextStartTimeRef
                 /\ sourcesRef' = sourcesRef
                 /\ StartsMade(msgs') = StartsMade(msgs)
         ]_vars

\* The second message failed to decode and was caught; the third was
\* started at the end of the first, where the cursor had been left.
C33_Witness ==
    /\ NoInterruption
    /\ Started = {1, 3}
    /\ msgs[2].audio = "odd" /\ msgs[2].pc = "caught"
    /\ msgs[3].startAt = msgs[1].startAt + msgs[1].duration
    /\ msgs[3].startAt > msgs[3].startClock

\* The message that arrives in this step.
Arriving == msgs'[Len(msgs')]

\* C34: a message that carries neither an interrupted flag nor an audio
\* segment, and any message handled while no output context exists, leaves
\* the active set and the cursor as they were.
C34_EmptyMessageChangesNothing ==
    [][(/\ Len(msgs') = Len(msgs) + 1
        /\ \/ (~Arriving.interrupted /\ Arriving.audio = "none")
           \/ Arriving.ctx = 0)
          => /\ sourcesRef' = sourcesRef
             /\ nextStartTimeRef' = nextStartTimeRef
             /\ microQ' = microQ
             /\ \A i \in 1..Len(msgs) : msgs'[i] = msgs[i]
      ]_vars

\* stopSession had returned when a suspended handler resumed and started
\* its item; then a message with the interrupted flag and an audio segment
\* arrived, found no output context and left the set and the cursor alone.
C34_Witness ==
    \E i \in 2..Len(msgs) :
        /\ msgs[i].ctx = 0
        /\ msgs[i].interrupted /\ msgs[i].audio = "ok"
        /\ msgs[i].preSources # {}
        /\ msgs[i].preCursor > 0
        /\ sourcesRef = msgs[i].preSources
        /\ nextStartTimeRef = msgs[i].preCursor
        /\ msgs[i].src = "none"



-----------------------------------------------------------------------------
(* File selection and dispatch, C35-C39.                                   *)

\* The catch of handleFileSelection call c runs in this step.
SplitFails(c) == selPc[c] = "splitting" /\ selPc'[c] = "failed"

\* Call c is the only handleFileSelection call made.
OnlySelection(c) == \A d \in Selections : d # c => selPc[d] = "idle"

\* C35: when decoding or splitting a selected large file fails, the failure
\* aborts only that operation and the component is back in the no-file
\* state: selectedFile is null, fileParts is empty, isSplitting is false,
\* the flows are left as they were, and no transcription call is ever made
\* for a part of that file.
C35_SplitFailureReturnsToNoFile ==
    /\ [][\A c \in Selections :
            SplitFails(c) =>
                /\ selectedFile' = 0
                /\ fileParts' = <<>>
                /\ ~isSplitting'
                /\ UNCHANGED <<isProcessing, fPc, fParts, fI, fFull, inFlight>>]_vars
    /\ [](\A c \in Selections :
            selPc[c] = "failed" =>
                \A n \in 1..Len(dLog) :
                    fParts[dLog[n].flow][dLog[n].part].file # c)

\* The same for a failure with no other file chosen or dropped meanwhile.
SplitFailureAloneReturnsToNoFile ==
    [][\A c \in Selections :
            SplitFails(c) /\ OnlySelection(c) =>
                /\ selectedFile' = 0
                /\ fileParts' = <<>>
                /\ ~isSplitting'
                /\ UNCHANGED <<isProcessing, fPc, fParts, fI, fFull, inFlight>>]_vars

\* A split failed with no other selection made.
SplitFailedAlone ==
    /\ selPc[1] = "failed"
    /\ OnlySelection(1)
    /\ selectedFile = 0 /\ fileParts = <<>> /\ ~isSplitting

\* The generateContent transcription calls flow f has made.
CallsOf(f) ==
    Cardinality({n \in 1..Len(dLog) :
        dLog[n].flow = f /\ dLog[n].type = "call"})

\* Flow f has finished: its finally has run.
Finished(f) == fPc[f] \in {"done", "aborted"}

\* C36: every dispatch flow terminates: whatever the parts and whatever
\* the pattern of successes, transient failures and fatal failures of the
\* remote calls, each call eventually returning, a started
\* handleTranscriptionFlow eventually finishes with isProcessing false and
\* processingStatus empty, and it makes at most 3 x (number of parts)
\* remote transcription calls.
C36_EveryFlowTerminates ==
    /\ \A f \in Flows :
           (fPc[f] # "idle") ~>
               (Finished(f) /\ ~isProcessing /\ processingStatus = "")
    /\ [](\A f \in Flows : CallsOf(f) <= 3 * Len(fParts[f]))

\* A flow over three parts that finished after 9 calls: every part was
\* called three times.
C36_Witness ==
    \E f \in Flows :
        /\ fPc[f] = "done"
        /\ Len(fParts[f]) = 3
        /\ CallsOf(f) = 9
        /\ ~isProcessing /\ processingStatus = ""

\* Flow f is the last one started.
LatestFlow(f) ==
    /\ fPc[f] # "idle"
    /\ \A g \in Flows : g > f => fPc[g] = "idle"

\* What is shown when no part returned a text (line 143).
NoTranscript == <<[file |-> 0, part |-> -1]>>

\* C37 as stated: after chunks 1..k have been processed without abort, the
\* transcription shown equals the non-empty chunk texts joined in chunk
\* index order with a blank line between them.
C37_TranscriptIsJoinedTexts ==
    \A f \in Flows :
        LatestFlow(f) /\ fPc[f] # "aborted" /\ fI[f] >= 1 =>
            transcription = TextsBefore(f, fI[f] + 1)

\* C37, amended: after chunks 1..k have been processed without abort and
\* at least one of them returned a text, the transcription shown equals the
\* non-empty chunk texts joined in chunk index order: an empty text adds
\* nothing and does not stop the sequence, no text is out of order or
\* shown twice.  When all chunks have been processed and none returned a
\* text, the transcription is the no-transcript notice.
C37_TranscriptIsJoinedTextsAmended ==
    \A f \in Flows :
        LatestFlow(f) /\ fPc[f] # "aborted" =>
            LET texts == TextsBefore(f, fI[f] + 1)
            IN  /\ texts # <<>> => transcription = texts
                /\ (texts = <<>> /\ fPc[f] = "done") =>
                       transcription = NoTranscript

\* Three chunks processed, the second with an empty text: the first and
\* the third text are shown, in this order.
C37_Witness ==
    \E f \in Flows :
        /\ LatestFlow(f) /\ fPc[f] # "aborted"
        /\ fI[f] = 3
        /\ \E n \in 1..Len(dLog) :
               /\ dLog[n].flow = f /\ dLog[n].part = 2
               /\ dLog[n].type = "return" /\ dLog[n].outcome = "empty"
        /\ transcription = <<fParts[f][1], fParts[f][3]>>

\* The bytes of part x, a token of fileParts.
BytesOf(x) == PartBytes(selFile[x.file], x.part)

\* The part lists the dispatcher holds: the state's and each flow's.
PartLists == {fileParts} \cup {fParts[f] : f \in Flows}

\* C38: every file part handed to the dispatcher is at most MAX_FILE_SIZE
\* bytes: a file of at most MAX_FILE_SIZE is passed through as the single
\* part, and every part of a larger file is a WAV of at most 300 s at
\* 16 kHz, mono, 16 bits, that is at most 44 + 9,600,000 bytes.
C38_PartsWithinLimit ==
    \A parts \in PartLists : \A i \in 1..Len(parts) :
        LET file == selFile[parts[i].file]
        IN  /\ BytesOf(parts[i]) <= MAX_FILE_SIZE
            /\ ~NeedsSplit(file) =>
                   /\ Len(parts) = 1
                   /\ BytesOf(parts[i]) = file.size
            /\ NeedsSplit(file) =>
                   BytesOf(parts[i]) <=
                       WavHeaderBytes
                       + 2 * CHUNK_DURATION_SEC * TARGET_SAMPLE_RATE

\* A file of exactly MAX_FILE_SIZE bytes went to the dispatcher as one
\* part, and then a larger file as three parts, the first of them of
\* exactly 300 s and the last of one sample.
C38_Witness ==
    /\ Len(fParts[1]) = 1
    /\ BytesOf(fParts[1][1]) = MAX_FILE_SIZE
    /\ Len(fParts[2]) = 3
    /\ NeedsSplit(selFile[fParts[2][1].file])
    /\ BytesOf(fParts[2][1]) =
           WavHeaderBytes + 2 * CHUNK_DURATION_SEC * TARGET_SAMPLE_RATE
    /\ BytesOf(fParts[2][3]) = WavHeaderBytes + 2

\* C39: the parts and the transcription always belong to the selected
\* file, in every interleaving of handleFileSelection calls with a running
\* split or a running flow: fileParts is empty or made of parts of
\* selectedFile, and the transcription shown holds no text of a file other
\* than selectedFile.
C39_PartsAndTextOfSelectedFile ==
    /\ \/ fileParts = <<>>
       \/ /\ selectedFile # 0
          /\ \A i \in 1..Len(fileParts) : fileParts[i].file = selectedFile
    /\ \A i \in 1..Len(transcription) :
           transcription[i].part > 0 => transcription[i].file = selectedFile

\* The parts belong to the selected file while one selection only was made.
PartsOfSelectedFileWhenAlone ==
    (\E c \in Selections : OnlySelection(c))
    => \/ fileParts = <<>>
       \/ /\ selectedFile # 0
          /\ \A i \in 1..Len(fileParts) : fileParts[i].file = selectedFile
=============================================================================
